---- MODULE Spec2Model ----
(***************************************************************************)
(* Finance engine (backend/cpp): the Ledger (DoublyLinkedList), the        *)
(* DateIndex (BST), the category totals and budgets (HashMap), and the     *)
(* undo log (UndoStack), driven through FinanceEngine's operations.        *)
(*                                                                         *)
(* std::string values are tuples of character codes, so that operator<     *)
(* is the lexicographic order and the '|'-delimited undo payload is built  *)
(* and parsed character by character.  Amounts and limits are doubles with *)
(* whole-number values (exact in a double), written to the payload with    *)
(* the stream's default precision of 6 significant digits.                 *)
(***************************************************************************)
EXTENDS Integers, Sequences, FiniteSets, TLC

\* ------------------------------------------------------------------ bounds
MaxAdds == 1        \* addTransaction calls in a run (generateId's counter)
MaxLoads == 1       \* loadTransaction calls in a run
MaxSetBudgets == 1  \* setBudget calls in a run
MaxLoadBudgets == 1 \* loadBudget calls in a run
UndoMaxSize == 3    \* capacity of the engine's undo log (default 50, scaled)
MaxCap == 3         \* largest capacity handed to UndoStack's constructor
MaxTopLoads == 3     \* loadTransaction calls in a run that ranks expenses
MaxBills == 2        \* addBill calls in a run (generateBillId's counter)
MaxBillLoads == 1    \* loadBill calls in a run
MaxRun == 2         \* longest run of calls that is undone call by call
MaxResultsAsked == 6 \* largest maxResults handed to getWordsWithPrefix
MaxPushes == 6       \* pushes onto a TransactionStack on its own
MaxWordCalls == 2    \* calls in a run that hand words to the tries
MaxWordBills == 1    \* addBill calls in a run that feeds the tries
MaxAlertAmount == 10 \* largest spent and limit of the budgets whose level is checked
MaxMonthLoads == 2   \* loadTransaction calls in a run that is summed by month
MaxIdAdds == 3       \* addTransaction calls in a run whose ids are compared

\* --------------------------------------------------------- character codes
Bar == 124          \* '|'
Dot == 46           \* '.'
Plus == 43          \* '+'
ChE == 101          \* 'e'
Ch0 == 48           \* '0'

IsDigit(c) == c >= 48 /\ c <= 57

\* std::string operator< : lexicographic on character codes, a proper
\* prefix is smaller.
RECURSIVE StrLess(_, _)
StrLess(a, b) ==
    IF b = <<>> THEN FALSE
    ELSE IF a = <<>> THEN TRUE
    ELSE IF Head(a) < Head(b) THEN TRUE
    ELSE IF Head(a) > Head(b) THEN FALSE
    ELSE StrLess(Tail(a), Tail(b))

StrLeq(a, b) == a = b \/ StrLess(a, b)

RECURSIVE Pow10(_)
Pow10(n) == IF n = 0 THEN 1 ELSE 10 * Pow10(n - 1)

RECURSIVE NumDigits(_)
NumDigits(n) == IF n < 10 THEN 1 ELSE 1 + NumDigits(n \div 10)

\* decimal digits of a natural number, most significant first
RECURSIVE DigitChars(_)
DigitChars(n) ==
    IF n < 10 THEN <<Ch0 + n>>
    ELSE Append(DigitChars(n \div 10), Ch0 + (n % 10))

RECURSIVE StripTrailingZeros(_)
StripTrailingZeros(s) ==
    IF s = <<>> THEN s
    ELSE IF s[Len(s)] = Ch0 THEN StripTrailingZeros(SubSeq(s, 1, Len(s) - 1))
    ELSE s

\* operator<<(ostream&, double) with the default format: %g with 6
\* significant digits.  Values below 10^6 print as plain digits; larger
\* ones are rounded (to nearest, ties to even) to 6 digits and print as
\* d.ddddde+XX with trailing zeros of the mantissa removed.
FormatDouble(a) ==
    IF a < 1000000 THEN DigitChars(a)
    ELSE
      LET e0 == NumDigits(a) - 1
          scale == Pow10(e0 - 5)
          q == a \div scale
          r == a % scale
          up == (2 * r > scale) \/ (2 * r = scale /\ q % 2 = 1)
          m0 == IF up THEN q + 1 ELSE q
          m == IF m0 = 1000000 THEN 100000 ELSE m0
          e == IF m0 = 1000000 THEN e0 + 1 ELSE e0
          md == DigitChars(m)
          frac == StripTrailingZeros(Tail(md))
          mant == IF frac = <<>> THEN <<Head(md)>> ELSE <<Head(md), Dot>> \o frac
          ed == IF e < 10 THEN <<Ch0>> \o DigitChars(e) ELSE DigitChars(e)
      IN mant \o <<ChE, Plus>> \o ed

\* the digits of s starting at position p
RECURSIVE TakeDigits(_, _)
TakeDigits(s, p) ==
    IF p > Len(s) \/ ~IsDigit(s[p]) THEN <<>>
    ELSE <<s[p]>> \o TakeDigits(s, p + 1)

RECURSIVE DigitsValue(_)
DigitsValue(d) ==
    IF d = <<>> THEN 0
    ELSE 10 * DigitsValue(SubSeq(d, 1, Len(d) - 1)) + (d[Len(d)] - Ch0)

\* operator>>(istream&, double&) at position p of s: integer part, optional
\* fraction, optional exponent.  Yields the value and the position after
\* the number.
ParseDouble(s, p) ==
    LET ip == TakeDigits(s, p)
        p1 == p + Len(ip)
        hasDot == p1 <= Len(s) /\ s[p1] = Dot
        fp == IF hasDot THEN TakeDigits(s, p1 + 1) ELSE <<>>
        p2 == IF hasDot THEN p1 + 1 + Len(fp) ELSE p1
        hasExp == p2 + 1 <= Len(s) /\ s[p2] = ChE /\ s[p2 + 1] = Plus
        ep == IF hasExp THEN TakeDigits(s, p2 + 2) ELSE <<>>
        p3 == IF hasExp THEN p2 + 2 + Len(ep) ELSE p2
        mantissa == DigitsValue(ip \o fp)
        shift == DigitsValue(ep) - Len(fp)
    IN [value |-> IF shift >= 0 THEN mantissa * Pow10(shift)
                  ELSE mantissa \div Pow10(0 - shift),
        next |-> p3]

\* std::getline(stream, tok, delim) at position p: the characters up to the
\* next delim (or the end); the delimiter is consumed.
RECURSIVE GetLine(_, _, _)
GetLine(s, p, delim) ==
    IF p > Len(s) THEN [tok |-> <<>>, next |-> p]
    ELSE IF s[p] = delim THEN [tok |-> <<>>, next |-> p + 1]
    ELSE LET rest == GetLine(s, p + 1, delim)
         IN [tok |-> <<s[p]>> \o rest.tok, next |-> rest.next]

\* std::getline(stream, tok) with the default '\n' delimiter: no text of
\* the model holds a newline, so it reads to the end.
GetRest(s, p) == IF p > Len(s) THEN <<>> ELSE SubSeq(s, p, Len(s))


\* ------------------------------------------------------------------ inputs
Income == <<105, 110, 99, 111, 109, 101>>           \* "income"
Expense == <<101, 120, 112, 101, 110, 115, 101>>    \* "expense"
Kinds == {Income, Expense}

CatFood == <<70, 111, 111, 100>>                    \* "Food"
CatRent == <<82, 101, 110, 116>>                    \* "Rent"
Categories == {CatFood, CatRent}

Date0105 == <<50, 48, 50, 52, 45, 48, 49, 45, 48, 53>>   \* "2024-01-05"
Date0115 == <<50, 48, 50, 52, 45, 48, 49, 45, 49, 53>>   \* "2024-01-15"
Date0210 == <<50, 48, 50, 52, 45, 48, 50, 45, 49, 48>>   \* "2024-02-10"
Dates == {Date0105, Date0115, Date0210}

\* query bounds: the dates in use, one before all of them, one after
QueryDates == Dates \cup {<<49>>, <<57>>}

\* the transactions a caller enters: every kind, amount, category,
\* description and date above occurs, and one expense has an amount of
\* more than six significant digits; entering one input twice gives two
\* transactions of the same date
TxnIn(type, amount, category, description, date) ==
    [type |-> type, amount |-> amount, category |-> category,
     description |-> description, date |-> date]

TxnInputs ==
    { TxnIn(Income, 1234567, CatFood, <<>>, Date0210),
      TxnIn(Expense, 50, CatFood, <<>>, Date0115),
      TxnIn(Expense, 1234567, CatRent, <<97, 124, 98>>, Date0105) }

\* the budgets a caller sets
BudgetInputs ==
    { [category |-> CatFood, limit |-> 100],
      [category |-> CatFood, limit |-> 1234567],
      [category |-> CatRent, limit |-> 100] }

\* generateId: "txn_<time>_<counter>"; the clock reading is shown as 0
GenId(counter) == <<116, 120, 110, 95, 48, 95>> \o DigitChars(counter)

\* ids the caller hands to loadTransaction: "L<n>", never used before
LoadId(n) == <<76>> \o DigitChars(n)

\* ------------------------------------------------- Transaction (linkedlist.h)
Txn(id, type, amount, category, description, date) ==
    [id |-> id, type |-> type, amount |-> amount, category |-> category,
     description |-> description, date |-> date]

\* ------------------------------------------- DoublyLinkedList (linkedlist.h)
\* the list is the sequence of its nodes' data from head to tail
\* an addFront that links the new node behind the tail
addFrontAtTail(list, t) == Append(list, t)

addFront(list, t) == <<t>> \o list

addBack(list, t) == Append(list, t)

\* the list without the first element whose id is id
RECURSIVE ListDeleteById(_, _)
ListDeleteById(list, id) ==
    IF list = <<>> THEN <<>>
    ELSE IF Head(list).id = id THEN Tail(list)
    ELSE <<Head(list)>> \o ListDeleteById(Tail(list), id)

traverseForward(list) == list

\* ---------------------------------------------------------------- BST (bst.h)
NilNode == [isNil |-> TRUE]

BSTNode(date, txs, left, right) ==
    [isNil |-> FALSE, date |-> date, transactions |-> txs,
     left |-> left, right |-> right]

\* an insert that puts the transaction first in its date's bucket
RECURSIVE insertHelperBucketFront(_, _, _)
insertHelperBucketFront(node, date, t) ==
    IF node.isNil THEN BSTNode(date, <<t>>, NilNode, NilNode)
    ELSE IF StrLess(date, node.date)
         THEN [node EXCEPT !.left = insertHelperBucketFront(node.left, date, t)]
    ELSE IF StrLess(node.date, date)
         THEN [node EXCEPT !.right = insertHelperBucketFront(node.right, date, t)]
    ELSE [node EXCEPT !.transactions = <<t>> \o @]

RECURSIVE insertHelper(_, _, _)
insertHelper(node, date, t) ==
    IF node.isNil THEN BSTNode(date, <<t>>, NilNode, NilNode)
    ELSE IF StrLess(date, node.date)
         THEN [node EXCEPT !.left = insertHelper(node.left, date, t)]
    ELSE IF StrLess(node.date, date)
         THEN [node EXCEPT !.right = insertHelper(node.right, date, t)]
    ELSE [node EXCEPT !.transactions = Append(@, t)]

BSTInsert(root, t) == insertHelper(root, t.date, t)

RECURSIVE inorderHelper(_)
inorderHelper(node) ==
    IF node.isNil THEN <<>>
    ELSE inorderHelper(node.left) \o node.transactions \o inorderHelper(node.right)

Reverse(seq) == [i \in 1..Len(seq) |-> seq[Len(seq) + 1 - i]]

\* a descending walk that also turns each date's bucket around
RECURSIVE reverseInorderHelperBucketsReversed(_)
reverseInorderHelperBucketsReversed(node) ==
    IF node.isNil THEN <<>>
    ELSE reverseInorderHelperBucketsReversed(node.right) \o Reverse(node.transactions)
         \o reverseInorderHelperBucketsReversed(node.left)

RECURSIVE reverseInorderHelper(_)
reverseInorderHelper(node) ==
    IF node.isNil THEN <<>>
    ELSE reverseInorderHelper(node.right) \o node.transactions
         \o reverseInorderHelper(node.left)

\* a range query whose end bound is exclusive
RECURSIVE rangeQueryHelperOpenEnd(_, _, _)
rangeQueryHelperOpenEnd(node, startDate, endDate) ==
    IF node.isNil THEN <<>>
    ELSE (IF StrLess(startDate, node.date)
          THEN rangeQueryHelperOpenEnd(node.left, startDate, endDate) ELSE <<>>)
         \o (IF StrLeq(startDate, node.date) /\ StrLess(node.date, endDate)
             THEN node.transactions ELSE <<>>)
         \o (IF StrLess(node.date, endDate)
             THEN rangeQueryHelperOpenEnd(node.right, startDate, endDate) ELSE <<>>)

RECURSIVE rangeQueryHelper(_, _, _)
rangeQueryHelper(node, startDate, endDate) ==
    IF node.isNil THEN <<>>
    ELSE (IF StrLess(startDate, node.date)
          THEN rangeQueryHelper(node.left, startDate, endDate) ELSE <<>>)
         \o (IF StrLeq(startDate, node.date) /\ StrLeq(node.date, endDate)
             THEN node.transactions ELSE <<>>)
         \o (IF StrLess(node.date, endDate)
             THEN rangeQueryHelper(node.right, startDate, endDate) ELSE <<>>)

HasId(txs, id) == \E i \in 1..Len(txs) : txs[i].id = id

FirstWithId(txs, id) ==
    txs[CHOOSE i \in 1..Len(txs) :
            txs[i].id = id /\ \A j \in 1..(i - 1) : txs[j].id # id]

\* findHelper: the node's bucket first, then the left subtree, then the right
RECURSIVE findHelper(_, _)
findHelper(node, id) ==
    IF node.isNil THEN [found |-> FALSE]
    ELSE IF HasId(node.transactions, id)
         THEN [found |-> TRUE, t |-> FirstWithId(node.transactions, id)]
    ELSE LET l == findHelper(node.left, id)
         IN IF l.found THEN l ELSE findHelper(node.right, id)

\* deleteTransactionHelper: erases the first match in the same search order;
\* the node stays in the tree even when its bucket becomes empty
RECURSIVE deleteTransactionHelper(_, _)
deleteTransactionHelper(node, id) ==
    IF node.isNil THEN [found |-> FALSE, node |-> node]
    ELSE IF HasId(node.transactions, id)
         THEN [found |-> TRUE,
               node |-> [node EXCEPT !.transactions = ListDeleteById(@, id)]]
    ELSE LET l == deleteTransactionHelper(node.left, id)
         IN IF l.found
            THEN [found |-> TRUE, node |-> [node EXCEPT !.left = l.node]]
            ELSE LET r == deleteTransactionHelper(node.right, id)
                 IN [found |-> r.found, node |-> [node EXCEPT !.right = r.node]]

BSTDeleteById(root, id) == deleteTransactionHelper(root, id).node

\* a month query that stops at the 30th
getByMonthTo30(root, yearMonth) ==
    rangeQueryHelper(root, yearMonth \o <<45, 48, 49>>, yearMonth \o <<45, 51, 48>>)

\* getByMonth: the range from yearMonth + "-01" to yearMonth + "-31"
getByMonth(root, yearMonth) ==
    rangeQueryHelper(root, yearMonth \o <<45, 48, 49>>, yearMonth \o <<45, 51, 49>>)

\* ------------------------------------------------------- HashMap (hashmap.h)
\* a map is the function from the keys it holds to their values; the
\* chaining and the hash only decide where a key's node lives
EmptyMap == <<>>

MapHas(m, k) == k \in DOMAIN m

MapInsert(m, k, v) ==
    [x \in (DOMAIN m) \cup {k} |-> IF x = k THEN v ELSE m[x]]

MapUpdate(m, k, v) == IF MapHas(m, k) THEN MapInsert(m, k, v) ELSE m

MapRemove(m, k) == [x \in (DOMAIN m) \ {k} |-> m[x]]

\* search leaves the out-parameter as it was when the key is absent
MapSearch(m, k, dflt) == IF MapHas(m, k) THEN m[k] ELSE dflt

\* ------------------------------------------------------- UndoStack (stack.h)
Action(type, data) == [type |-> type, data |-> data]

\* nodes: the linked records from top to bottom; count: the size field
NewUndoStack(maxSz) == [nodes |-> <<>>, count |-> 0, maxSize |-> maxSz]

\* push: at capacity the walk stops at the second-to-last node and unlinks
\* the last one; with a single node there is no second-to-last and nothing
\* is unlinked
UndoPush(st, a) ==
    LET trimmed ==
          IF st.count >= st.maxSize /\ Len(st.nodes) >= 2
          THEN [st EXCEPT !.nodes = SubSeq(@, 1, Len(@) - 1), !.count = @ - 1]
          ELSE st
    IN [trimmed EXCEPT !.nodes = <<a>> \o @, !.count = @ + 1]

\* a pop that leaves the size field as it was
UndoPopKeepsCount(st) ==
    IF st.nodes = <<>> THEN [ok |-> FALSE, st |-> st]
    ELSE [ok |-> TRUE, a |-> Head(st.nodes), st |-> [st EXCEPT !.nodes = Tail(@)]]

UndoPop(st) ==
    IF st.nodes = <<>> THEN [ok |-> FALSE, st |-> st]
    ELSE [ok |-> TRUE, a |-> Head(st.nodes),
          st |-> [st EXCEPT !.nodes = Tail(@), !.count = @ - 1]]

UndoClear(st) == [st EXCEPT !.nodes = <<>>, !.count = 0]

UndoIsEmpty(st) == st.count = 0

\* ---- HashMap, the hash and the walk over the table
TABLE_SIZE == 100

\* hash: hashVal is an unsigned long, so a negative sum (a character below
\* 'a' - 1) wraps by 2^64 before the remainder is taken; 2^64 % 100 = 16
RECURSIVE HashFrom(_, _, _, _)
HashFrom(key, i, hashVal, p_pow) ==
    IF i > Len(key) THEN hashVal
    ELSE LET sum == hashVal + (key[i] - 97 + 1) * p_pow
         IN HashFrom(key, i + 1,
                     (IF sum < 0 THEN sum + 16 ELSE sum) % TABLE_SIZE,
                     (p_pow * 31) % TABLE_SIZE)

hash(key) == HashFrom(key, 1, 0, 1)

\* getAllPairs walks the buckets from 0 to TABLE_SIZE - 1 (the categories
\* of this model hash to different buckets, so no chain has two nodes)
RECURSIVE PairsOf(_, _)
PairsOf(m, keys) ==
    IF keys = {} THEN <<>>
    ELSE LET k == CHOOSE k \in keys : \A k2 \in keys : hash(k) <= hash(k2)
         IN <<[first |-> k, second |-> m[k]]>> \o PairsOf(m, keys \ {k})

getAllPairs(m) == PairsOf(m, DOMAIN m)

\* ------------------------------------------- TransactionStack (stack.h)
RecentMaxSize == 100

NewTransactionStack(maxSz) == [nodes |-> <<>>, count |-> 0, maxSize |-> maxSz]

\* a push that cuts one node further down, keeping maxSize + 1 nodes
TransactionStackPushKeepsOneMore(st, t) ==
    LET nodes == <<t>> \o st.nodes
        count == st.count + 1
        keep == (IF st.maxSize > 1 THEN st.maxSize ELSE 1) + 1
    IN IF count > st.maxSize /\ Len(nodes) > keep
       THEN [st EXCEPT !.nodes = SubSeq(nodes, 1, keep),
                       !.count = count - (Len(nodes) - keep)]
       ELSE [st EXCEPT !.nodes = nodes, !.count = count]

\* push: link the new node on top, then, when over maxSize, walk maxSize - 1
\* links down from the top and cut everything below that node
TransactionStackPush(st, t) ==
    LET nodes == <<t>> \o st.nodes
        count == st.count + 1
        keep == IF st.maxSize > 1 THEN st.maxSize ELSE 1
    IN IF count > st.maxSize /\ Len(nodes) > keep
       THEN [st EXCEPT !.nodes = SubSeq(nodes, 1, keep),
                       !.count = count - (Len(nodes) - keep)]
       ELSE [st EXCEPT !.nodes = nodes, !.count = count]

getTopN(st, n) ==
    IF n <= 0 THEN <<>>
    ELSE SubSeq(st.nodes, 1, IF n < Len(st.nodes) THEN n ELSE Len(st.nodes))

TransactionStackClear(st) == [st EXCEPT !.nodes = <<>>, !.count = 0]

\* ----------------------------------------------------- MaxHeap (heap.h)
\* the vector's slots are numbered from 0 as in the source; slot i of the
\* vector is element i + 1 of the sequence
Swap(h, i, j) == [h EXCEPT ![i + 1] = h[j + 1], ![j + 1] = h[i + 1]]

RECURSIVE heapifyUp(_, _)
heapifyUp(h, i) ==
    IF i > 0 /\ h[((i - 1) \div 2) + 1].amount < h[i + 1].amount
    THEN heapifyUp(Swap(h, (i - 1) \div 2, i), (i - 1) \div 2)
    ELSE h

\* a sift-down that only ever looks at the left child
RECURSIVE heapifyDownLeftOnly(_, _)
heapifyDownLeftOnly(h, i) ==
    LET left == 2 * i + 1
    IN IF left < Len(h) /\ h[left + 1].amount > h[i + 1].amount
       THEN heapifyDownLeftOnly(Swap(h, i, left), left)
       ELSE h

RECURSIVE heapifyDown(_, _)
heapifyDown(h, i) ==
    LET left == 2 * i + 1
        right == 2 * i + 2
        l1 == IF left < Len(h) /\ h[left + 1].amount > h[i + 1].amount
              THEN left ELSE i
        largest == IF right < Len(h) /\ h[right + 1].amount > h[l1 + 1].amount
                   THEN right ELSE l1
    IN IF largest # i THEN heapifyDown(Swap(h, i, largest), largest) ELSE h

\* the loop of buildHeap, from slot i down to slot 0
RECURSIVE BuildFrom(_, _)
BuildFrom(h, i) == IF i < 0 THEN h ELSE BuildFrom(heapifyDown(h, i), i - 1)

buildHeap(transactions) == BuildFrom(transactions, (Len(transactions) \div 2) - 1)

HeapInsert(h, t) == heapifyUp(Append(h, t), Len(h))

extractMax(h) ==
    IF h = <<>> THEN [ok |-> FALSE, h |-> h]
    ELSE LET moved == SubSeq([h EXCEPT ![1] = h[Len(h)]], 1, Len(h) - 1)
         IN [ok |-> TRUE, t |-> h[1],
             h |-> IF moved # <<>> THEN heapifyDown(moved, 0) ELSE moved]

\* the loop of getTopK: what it collects in k rounds from h
RECURSIVE ExtractK(_, _)
ExtractK(h, k) ==
    IF k <= 0 \/ h = <<>> THEN <<>>
    ELSE <<extractMax(h).t>> \o ExtractK(extractMax(h).h, k - 1)

\* getTopK works on the heap and puts the backup back before returning
getTopK(h, k) == ExtractK(h, k)

\* ---- CategoryMaxHeap: the same code on (category, totalAmount) pairs
CategoryAmount(category, totalAmount) ==
    [category |-> category, totalAmount |-> totalAmount]

RECURSIVE CategoryHeapifyDown(_, _)
CategoryHeapifyDown(h, i) ==
    LET left == 2 * i + 1
        right == 2 * i + 2
        l1 == IF left < Len(h) /\ h[left + 1].totalAmount > h[i + 1].totalAmount
              THEN left ELSE i
        largest == IF right < Len(h) /\ h[right + 1].totalAmount > h[l1 + 1].totalAmount
                   THEN right ELSE l1
    IN IF largest # i THEN CategoryHeapifyDown(Swap(h, i, largest), largest) ELSE h

RECURSIVE CategoryBuildFrom(_, _)
CategoryBuildFrom(h, i) ==
    IF i < 0 THEN h ELSE CategoryBuildFrom(CategoryHeapifyDown(h, i), i - 1)

CategoryBuildHeap(categories) ==
    CategoryBuildFrom(categories, (Len(categories) \div 2) - 1)

CategoryExtractMax(h) ==
    IF h = <<>> THEN [ok |-> FALSE, h |-> h]
    ELSE LET moved == SubSeq([h EXCEPT ![1] = h[Len(h)]], 1, Len(h) - 1)
         IN [ok |-> TRUE, t |-> h[1],
             h |-> IF moved # <<>> THEN CategoryHeapifyDown(moved, 0) ELSE moved]

RECURSIVE CategoryExtractK(_, _)
CategoryExtractK(h, k) ==
    IF k <= 0 \/ h = <<>> THEN <<>>
    ELSE <<CategoryExtractMax(h).t>> \o CategoryExtractK(CategoryExtractMax(h).h, k - 1)

CategoryGetTopK(h, k) == CategoryExtractK(h, k)

\* ----------------------------------------------------- BillQueue (queue.h)
Bill(id, name, amount, dueDate, category) ==
    [id |-> id, name |-> name, amount |-> amount, dueDate |-> dueDate,
     category |-> category, isPaid |-> FALSE]

\* nodes: the bills linked from front; rear: the place in nodes of the node
\* the rear pointer names (0 for nullptr); count: the size field
NewBillQueue == [nodes |-> <<>>, rear |-> 0, count |-> 0]

\* enqueue links the new node behind the node rear names; a rear that names
\* a node no longer linked from front leaves the new node out of the chain
enqueue(q, b) ==
    IF q.rear = 0
    THEN [nodes |-> <<b>>, rear |-> 1, count |-> q.count + 1]
    ELSE IF q.rear <= Len(q.nodes)
    THEN [nodes |-> Append(SubSeq(q.nodes, 1, q.rear), b),
          rear |-> q.rear + 1, count |-> q.count + 1]
    ELSE [q EXCEPT !.count = @ + 1]

dequeue(q) ==
    IF q.nodes = <<>> THEN [ok |-> FALSE, q |-> q]
    ELSE [ok |-> TRUE, b |-> Head(q.nodes),
          q |-> [nodes |-> Tail(q.nodes),
                 rear |-> IF Len(q.nodes) = 1 THEN 0 ELSE q.rear - 1,
                 count |-> q.count - 1]]

peek(q) ==
    IF q.nodes = <<>> THEN [ok |-> FALSE] ELSE [ok |-> TRUE, b |-> Head(q.nodes)]

QueueGetAllBills(q) == q.nodes

\* the place of the first bill with the id, 0 when there is none
QueueIndexOf(q, id) ==
    IF \E i \in 1..Len(q.nodes) : q.nodes[i].id = id
    THEN CHOOSE i \in 1..Len(q.nodes) :
             /\ q.nodes[i].id = id
             /\ \A j \in 1..(i - 1) : q.nodes[j].id # id
    ELSE 0

QueueFindById(q, id) ==
    IF QueueIndexOf(q, id) = 0 THEN [found |-> FALSE]
    ELSE [found |-> TRUE, b |-> q.nodes[QueueIndexOf(q, id)]]

\* a removeById that forgets to move rear when it unlinks the last node
removeByIdStaleRear(q, id) ==
    LET i == QueueIndexOf(q, id)
    IN IF q.nodes = <<>> \/ i = 0 THEN [ok |-> FALSE, q |-> q]
       ELSE IF i = 1 THEN [ok |-> TRUE, q |-> dequeue(q).q]
       ELSE [ok |-> TRUE,
             q |-> [nodes |-> SubSeq(q.nodes, 1, i - 1)
                              \o SubSeq(q.nodes, i + 1, Len(q.nodes)),
                    rear |-> IF i < q.rear THEN q.rear - 1 ELSE q.rear,
                    count |-> q.count - 1]]

removeById(q, id) ==
    LET i == QueueIndexOf(q, id)
    IN IF q.nodes = <<>> \/ i = 0 THEN [ok |-> FALSE, q |-> q]
       ELSE IF i = 1 THEN [ok |-> TRUE, q |-> dequeue(q).q]
       ELSE [ok |-> TRUE,
             q |-> [nodes |-> SubSeq(q.nodes, 1, i - 1)
                              \o SubSeq(q.nodes, i + 1, Len(q.nodes)),
                    rear |-> IF i = q.rear THEN i - 1
                             ELSE IF i < q.rear THEN q.rear - 1 ELSE q.rear,
                    count |-> q.count - 1]]

\* a markAsPaid that flips the flag of the bill
markAsPaidToggles(q, id) ==
    LET i == QueueIndexOf(q, id)
    IN IF i = 0 THEN [ok |-> FALSE, q |-> q]
       ELSE [ok |-> TRUE, q |-> [q EXCEPT !.nodes[i].isPaid = ~@]]

markAsPaid(q, id) ==
    LET i == QueueIndexOf(q, id)
    IN IF i = 0 THEN [ok |-> FALSE, q |-> q]
       ELSE [ok |-> TRUE, q |-> [q EXCEPT !.nodes[i].isPaid = TRUE]]

\* an overdue test that also takes the bills due on the date itself
QueueGetOverdueBillsInclusive(q, currentDate) ==
    SelectSeq(q.nodes, LAMBDA b : ~b.isPaid /\ StrLeq(b.dueDate, currentDate))

QueueGetOverdueBills(q, currentDate) ==
    SelectSeq(q.nodes, LAMBDA b : ~b.isPaid /\ StrLess(b.dueDate, currentDate))

QueueClear(q) == [nodes |-> <<>>, rear |-> 0, count |-> 0]

\* ------------------------------------------------------------ Trie (trie.h)
ToLowerChar(c) == IF c >= 65 /\ c <= 90 THEN c + 32 ELSE c

toLower(str) == [i \in 1..Len(str) |-> ToLowerChar(str[i])]

\* a trie as its end-of-word nodes: the lowercased path to the node, and the
\* word stored there
NewTrie == <<>>

TrieInsert(trie, word) ==
    IF word = <<>> \/ toLower(word) \in DOMAIN trie THEN trie
    ELSE [k \in DOMAIN trie \cup {toLower(word)} |->
              IF k = toLower(word) THEN word ELSE trie[k]]

\* insert each word of a list, in order
RECURSIVE TrieInsertAll(_, _)
TrieInsertAll(trie, words) ==
    IF words = <<>> THEN trie
    ELSE TrieInsertAll(TrieInsert(trie, Head(words)), Tail(words))

\* remove unmarks the end-of-word node and leaves the path in place
TrieRemove(trie, word) ==
    IF toLower(word) \in DOMAIN trie
    THEN [ok |-> TRUE,
          trie |-> [k \in DOMAIN trie \ {toLower(word)} |-> trie[k]]]
    ELSE [ok |-> FALSE, trie |-> trie]

TrieClear(trie) == NewTrie

IsPrefixOf(p, s) == Len(p) <= Len(s) /\ SubSeq(s, 1, Len(p)) = p

\* the characters that lead from the node at path towards a stored word
ChildChars(trie, path) ==
    {k[Len(path) + 1] : k \in {x \in DOMAIN trie : IsPrefixOf(path, x) /\ x # path}}

\* collectWords from the node at path: the node's own word first, then each
\* child's subtree in the iteration order of the unordered_map, which is any
\* order of the children; the value is the set of vectors it can produce
RECURSIVE collectWords(_, _), CollectChildren(_, _, _)
collectWords(trie, path) ==
    LET own == IF path \in DOMAIN trie THEN <<trie[path]>> ELSE <<>>
    IN {own \o rest : rest \in CollectChildren(trie, path, ChildChars(trie, path))}

CollectChildren(trie, path, chars) ==
    IF chars = {} THEN {<<>>}
    ELSE UNION {{a \o b : a \in collectWords(trie, Append(path, c)),
                          b \in CollectChildren(trie, path, chars \ {c})} :
                c \in chars}

Resize(result, maxResults) ==
    IF Len(result) > maxResults THEN SubSeq(result, 1, maxResults) ELSE result

\* a prefix walk that compares the prefix as given, without lower-casing it
getWordsWithPrefixCaseSensitive(trie, prefix, maxResults) ==
    {Resize(r, maxResults) : r \in collectWords(trie, prefix)}

\* getWordsWithPrefix: walk down the lower-cased prefix (a missing child
\* gives the empty result), collect from there, cut to maxResults; the set
\* of vectors a call can return
getWordsWithPrefix(trie, prefix, maxResults) ==
    {Resize(r, maxResults) : r \in collectWords(trie, toLower(prefix))}

\* getAllWords, as the set of vectors a call can return
getAllWords(trie) == collectWords(trie, <<>>)

\* the words getAllWords returns, whatever their order
AllWordsOf(trie) == {trie[k] : k \in DOMAIN trie}

\* ------------------------------------------- FinanceEngine (finance_engine.h)
Budget(category, limit, spent) ==
    [category |-> category, limit |-> limit, spent |-> spent]

Max(a, b) == IF a >= b THEN a ELSE b

\* the engine as a value: one field per member the operations below touch
\* (txnCounter is generateId's static counter)
\* the categories the constructor seeds the category trie with
DefaultCategories ==
    <<<<70, 111, 111, 100>>,
      <<84, 114, 97, 110, 115, 112, 111, 114, 116>>,
      <<83, 104, 111, 112, 112, 105, 110, 103>>,
      <<69, 110, 116, 101, 114, 116, 97, 105, 110, 109, 101, 110, 116>>,
      <<66, 105, 108, 108, 115>>,
      <<72, 101, 97, 108, 116, 104, 99, 97, 114, 101>>,
      <<69, 100, 117, 99, 97, 116, 105, 111, 110>>,
      <<83, 97, 108, 97, 114, 121>>,
      <<70, 114, 101, 101, 108, 97, 110, 99, 101>>,
      <<73, 110, 118, 101, 115, 116, 109, 101, 110, 116>>,
      <<82, 101, 110, 116>>,
      <<85, 116, 105, 108, 105, 116, 105, 101, 115>>,
      <<71, 114, 111, 99, 101, 114, 105, 101, 115>>,
      <<68, 105, 110, 105, 110, 103>>,
      <<84, 114, 97, 118, 101, 108>>>>

NewEngine ==
    [transactionList |-> <<>>, transactionBST |-> NilNode,
     expenseMap |-> EmptyMap, budgetMap |-> EmptyMap,
     undoStack |-> NewUndoStack(UndoMaxSize), txnCounter |-> 0,
     recentStack |-> NewTransactionStack(RecentMaxSize),
     expenseHeap |-> <<>>, categoryHeap |-> <<>>,
     billQueue |-> NewBillQueue, billCounter |-> 0,
     categoryTrie |-> TrieInsertAll(NewTrie, DefaultCategories),
     payeeTrie |-> NewTrie]

updateExpenseTracking(e, t, isAdd) ==
    IF t.type # Expense THEN e
    ELSE
      LET current == MapSearch(e.expenseMap, t.category, 0)
          total == IF isAdd THEN current + t.amount
                   ELSE Max(0, current - t.amount)
      IN [e EXCEPT
            !.expenseMap = MapInsert(@, t.category, total),
            !.budgetMap =
                IF MapHas(@, t.category)
                THEN MapUpdate(@, t.category, [@[t.category] EXCEPT !.spent = total])
                ELSE @]

\* the payload of a transaction's undo record
TxnData(t) ==
    t.id \o <<Bar>> \o t.type \o <<Bar>> \o FormatDouble(t.amount) \o <<Bar>>
    \o t.category \o <<Bar>> \o t.description \o <<Bar>> \o t.date

\* the payload of a budget's undo record
BudgetData(category, limit) == category \o <<Bar>> \o FormatDouble(limit)

\* what undo reads back from a DELETE_TRANSACTION payload
ParseTxnData(data) ==
    LET f1 == GetLine(data, 1, Bar)
        f2 == GetLine(data, f1.next, Bar)
        f3 == ParseDouble(data, f2.next)
        f4 == GetLine(data, f3.next + 1, Bar)     \* ss.ignore() skips one char
        f5 == GetLine(data, f4.next, Bar)
    IN Txn(f1.tok, f2.tok, f3.value, f4.tok, f5.tok, GetRest(data, f5.next))

\* what undo reads back from an UPDATE_BUDGET payload
ParseBudgetData(data) ==
    LET f1 == GetLine(data, 1, Bar)
    IN [category |-> f1.tok, limit |-> ParseDouble(data, f1.next).value]

addTransaction(e, inp) ==
    LET t == Txn(GenId(e.txnCounter + 1), inp.type, inp.amount, inp.category,
                 inp.description, inp.date)
        e1 == [e EXCEPT !.txnCounter = @ + 1,
                        !.transactionList = addFront(@, t),
                        !.transactionBST = BSTInsert(@, t),
                        !.recentStack = TransactionStackPush(@, t)]
        e2 == updateExpenseTracking(e1, t, TRUE)
        e3 == [e2 EXCEPT
                 !.expenseHeap = IF t.type = Expense THEN HeapInsert(@, t) ELSE @,
                 !.categoryTrie = TrieInsert(@, t.category),
                 !.payeeTrie = TrieInsert(@, t.description)]
    IN [e |-> [e3 EXCEPT !.undoStack =
                   UndoPush(@, Action("ADD_TRANSACTION", TxnData(t)))],
        ret |-> t]

\* a deleteTransaction that also takes the transaction out of the recent view
deleteTransactionCompacts(e, id) ==
    LET f == findHelper(e.transactionBST, id)
    IN IF ~f.found THEN [e |-> e, ret |-> FALSE]
       ELSE
         LET e1 == [e EXCEPT
                      !.undoStack =
                          UndoPush(@, Action("DELETE_TRANSACTION", TxnData(f.t))),
                      !.transactionList = ListDeleteById(@, id),
                      !.transactionBST = BSTDeleteById(@, id),
                      !.recentStack =
                          [@ EXCEPT !.nodes = SelectSeq(@, LAMBDA t : t.id # id),
                                    !.count = Len(SelectSeq(e.recentStack.nodes,
                                                            LAMBDA t : t.id # id))]]
         IN [e |-> updateExpenseTracking(e1, f.t, FALSE), ret |-> TRUE]

deleteTransaction(e, id) ==
    LET f == findHelper(e.transactionBST, id)
    IN IF ~f.found THEN [e |-> e, ret |-> FALSE]
       ELSE
         LET e1 == [e EXCEPT
                      !.undoStack =
                          UndoPush(@, Action("DELETE_TRANSACTION", TxnData(f.t))),
                      !.transactionList = ListDeleteById(@, id),
                      !.transactionBST = BSTDeleteById(@, id)]
         IN [e |-> updateExpenseTracking(e1, f.t, FALSE), ret |-> TRUE]

\* addTransaction statement by statement: the engine before the call and
\* after each statement that writes a member
addTransactionSteps(e, inp) ==
    LET t == Txn(GenId(e.txnCounter + 1), inp.type, inp.amount, inp.category,
                 inp.description, inp.date)
        s1 == [e EXCEPT !.txnCounter = @ + 1]
        s2 == [s1 EXCEPT !.transactionList = addFront(@, t)]
        s3 == [s2 EXCEPT !.transactionBST = BSTInsert(@, t)]
        s4 == [s3 EXCEPT !.recentStack = TransactionStackPush(@, t)]
        s5 == updateExpenseTracking(s4, t, TRUE)
        s6 == [s5 EXCEPT !.expenseHeap =
                             IF t.type = Expense THEN HeapInsert(@, t) ELSE @]
        s7 == [s6 EXCEPT !.categoryTrie = TrieInsert(@, t.category)]
        s8 == [s7 EXCEPT !.payeeTrie = TrieInsert(@, t.description)]
        s9 == [s8 EXCEPT !.undoStack =
                             UndoPush(@, Action("ADD_TRANSACTION", TxnData(t)))]
    IN <<e, s1, s2, s3, s4, s5, s6, s7, s8, s9>>

\* a deleteTransaction that writes its undo record after the removals
deleteTransactionStepsRecordLast(e, id) ==
    LET f == findHelper(e.transactionBST, id)
    IN IF ~f.found THEN <<e>>
       ELSE
         LET s1 == [e EXCEPT !.transactionList = ListDeleteById(@, id)]
             s2 == [s1 EXCEPT !.transactionBST = BSTDeleteById(@, id)]
             s3 == updateExpenseTracking(s2, f.t, FALSE)
             s4 == [s3 EXCEPT !.undoStack =
                        UndoPush(@, Action("DELETE_TRANSACTION", TxnData(f.t)))]
         IN <<e, s1, s2, s3, s4>>

\* deleteTransaction statement by statement: the record for undo is pushed
\* before the removals
deleteTransactionSteps(e, id) ==
    LET f == findHelper(e.transactionBST, id)
    IN IF ~f.found THEN <<e>>
       ELSE
         LET s1 == [e EXCEPT !.undoStack =
                        UndoPush(@, Action("DELETE_TRANSACTION", TxnData(f.t)))]
             s2 == [s1 EXCEPT !.transactionList = ListDeleteById(@, id)]
             s3 == [s2 EXCEPT !.transactionBST = BSTDeleteById(@, id)]
             s4 == updateExpenseTracking(s3, f.t, FALSE)
         IN <<e, s1, s2, s3, s4>>

\* a setBudget whose new Budget starts at spent = 0
setBudgetZeroSpent(e, category, limit) ==
    IF MapHas(e.budgetMap, category)
    THEN [e EXCEPT
            !.undoStack =
                UndoPush(@, Action("UPDATE_BUDGET",
                                   BudgetData(category, e.budgetMap[category].limit))),
            !.budgetMap = MapUpdate(@, category, [@[category] EXCEPT !.limit = limit]),
            !.categoryTrie = TrieInsert(@, category)]
    ELSE [e EXCEPT
            !.undoStack =
                UndoPush(@, Action("ADD_BUDGET", BudgetData(category, limit))),
            !.budgetMap = MapInsert(@, category, Budget(category, limit, 0)),
            !.categoryTrie = TrieInsert(@, category)]

setBudget(e, category, limit) ==
    LET spent == MapSearch(e.expenseMap, category, 0)
    IN IF MapHas(e.budgetMap, category)
       THEN [e EXCEPT
               !.undoStack =
                   UndoPush(@, Action("UPDATE_BUDGET",
                                      BudgetData(category, e.budgetMap[category].limit))),
               !.budgetMap = MapUpdate(@, category, [@[category] EXCEPT !.limit = limit]),
               !.categoryTrie = TrieInsert(@, category)]
       ELSE [e EXCEPT
               !.undoStack =
                   UndoPush(@, Action("ADD_BUDGET", BudgetData(category, limit))),
               !.budgetMap = MapInsert(@, category, Budget(category, limit, spent)),
               !.categoryTrie = TrieInsert(@, category)]

\* an undo of an add that leaves the compensating record on the log
undoAddTransactionNoPop(e, data) ==
    deleteTransaction(e, GetLine(data, 1, Bar).tok).e

\* an undo of an add that pops two records after the delete
undoAddTransactionPopsTwice(e, data) ==
    LET d == deleteTransaction(e, GetLine(data, 1, Bar).tok)
    IN [d.e EXCEPT !.undoStack = UndoPop(UndoPop(@).st).st]

\* undo, ADD_TRANSACTION: delete the transaction named by the first field,
\* then pop once more whatever the delete returned
undoAddTransaction(e, data) ==
    LET d == deleteTransaction(e, GetLine(data, 1, Bar).tok)
    IN [d.e EXCEPT !.undoStack = UndoPop(@).st]

\* an undo of a delete that puts the transaction at the tail of the list
undoDeleteTransactionAtBack(e, data) ==
    LET t == ParseTxnData(data)
        e1 == [e EXCEPT !.transactionList = addBack(@, t),
                        !.transactionBST = BSTInsert(@, t)]
    IN updateExpenseTracking(e1, t, TRUE)

\* undo, DELETE_TRANSACTION: rebuild the transaction from the payload and
\* put it at the front of the list and into the tree
undoDeleteTransaction(e, data) ==
    LET t == ParseTxnData(data)
        e1 == [e EXCEPT !.transactionList = addFront(@, t),
                        !.transactionBST = BSTInsert(@, t)]
    IN updateExpenseTracking(e1, t, TRUE)

undoAddBudget(e, data) ==
    [e EXCEPT !.budgetMap = MapRemove(@, GetLine(data, 1, Bar).tok)]

undoUpdateBudget(e, data) ==
    LET b == ParseBudgetData(data)
    IN IF MapHas(e.budgetMap, b.category)
       THEN [e EXCEPT !.budgetMap =
                 MapUpdate(@, b.category, [@[b.category] EXCEPT !.limit = b.limit])]
       ELSE e

undo(e) ==
    LET p == UndoPop(e.undoStack)
    IN IF ~p.ok THEN [e |-> e, ret |-> FALSE]
       ELSE
         LET e1 == [e EXCEPT !.undoStack = p.st]
         IN [e |-> CASE p.a.type = "ADD_TRANSACTION" -> undoAddTransaction(e1, p.a.data)
                     [] p.a.type = "DELETE_TRANSACTION" -> undoDeleteTransaction(e1, p.a.data)
                     [] p.a.type = "ADD_BUDGET" -> undoAddBudget(e1, p.a.data)
                     [] p.a.type = "UPDATE_BUDGET" -> undoUpdateBudget(e1, p.a.data)
                     [] OTHER -> e1,
             ret |-> TRUE]

canUndo(e) == ~UndoIsEmpty(e.undoStack)

\* a load that records itself for undo, as addTransaction does
loadTransactionRecorded(e, id, inp) ==
    LET t == Txn(id, inp.type, inp.amount, inp.category, inp.description, inp.date)
        e1 == [e EXCEPT !.transactionList = addBack(@, t),
                        !.transactionBST = BSTInsert(@, t),
                        !.recentStack = TransactionStackPush(@, t)]
    IN [updateExpenseTracking(e1, t, TRUE) EXCEPT
          !.undoStack = UndoPush(@, Action("ADD_TRANSACTION", TxnData(t)))]

loadTransaction(e, id, inp) ==
    LET t == Txn(id, inp.type, inp.amount, inp.category, inp.description, inp.date)
        e1 == [e EXCEPT !.transactionList = addBack(@, t),
                        !.transactionBST = BSTInsert(@, t),
                        !.recentStack = TransactionStackPush(@, t)]
        e2 == updateExpenseTracking(e1, t, TRUE)
    IN [e2 EXCEPT
          !.expenseHeap = IF t.type = Expense THEN HeapInsert(@, t) ELSE @,
          !.categoryTrie = TrieInsert(@, t.category),
          !.payeeTrie = TrieInsert(@, t.description)]

loadBudget(e, category, limit) ==
    [e EXCEPT !.budgetMap =
                  MapInsert(@, category,
                            Budget(category, limit, MapSearch(e.expenseMap, category, 0))),
              !.categoryTrie = TrieInsert(@, category)]

\* a clearAll that also empties the two tries
clearAllWithTries(e) ==
    [e EXCEPT !.transactionList = <<>>, !.transactionBST = NilNode,
              !.expenseHeap = <<>>,
              !.recentStack = TransactionStackClear(@),
              !.undoStack = UndoClear(@),
              !.billQueue = QueueClear(@),
              !.categoryTrie = TrieClear(@),
              !.payeeTrie = TrieClear(@)]

\* a clearAll that also starts the two id counters again
clearAllResetsCounters(e) ==
    [e EXCEPT !.transactionList = <<>>, !.transactionBST = NilNode,
              !.expenseHeap = <<>>,
              !.recentStack = TransactionStackClear(@),
              !.undoStack = UndoClear(@),
              !.billQueue = QueueClear(@),
              !.txnCounter = 0,
              !.billCounter = 0]

\* clearAll empties the list, the tree, the expense heap, the two stacks
\* and the bill queue; the two maps, the category heap and the tries are not
\* among the members it clears
clearAll(e) ==
    [e EXCEPT !.transactionList = <<>>, !.transactionBST = NilNode,
              !.expenseHeap = <<>>,
              !.recentStack = TransactionStackClear(@),
              !.undoStack = UndoClear(@),
              !.billQueue = QueueClear(@)]

\* ---- queries
getAllTransactions(e) == traverseForward(e.transactionList)

getTransactionsByDateAsc(e) == inorderHelper(e.transactionBST)

getTransactionsByDateDesc(e) == reverseInorderHelper(e.transactionBST)

\* DoublyLinkedList::size(): the count that addFront, addBack, deleteById
\* and clear keep equal to the number of nodes
getTransactionCount(e) == Len(e.transactionList)

getTransactionsInRange(e, startDate, endDate) ==
    rangeQueryHelper(e.transactionBST, startDate, endDate)

\* a balance that adds every amount, whatever the kind
RECURSIVE BalanceOfUnsigned(_)
BalanceOfUnsigned(txs) ==
    IF txs = <<>> THEN 0
    ELSE BalanceOfUnsigned(Tail(txs)) + Head(txs).amount

RECURSIVE BalanceOf(_)
BalanceOf(txs) ==
    IF txs = <<>> THEN 0
    ELSE BalanceOf(SubSeq(txs, 1, Len(txs) - 1))
         + (IF txs[Len(txs)].type = Income THEN txs[Len(txs)].amount
            ELSE 0 - txs[Len(txs)].amount)

getTotalBalance(e) == BalanceOf(traverseForward(e.transactionList))

\* getBudget: found flag and the budget
getBudget(e, category) ==
    IF MapHas(e.budgetMap, category)
    THEN [found |-> TRUE, budget |-> e.budgetMap[category]]
    ELSE [found |-> FALSE]

getBudgetCount(e) == Cardinality(DOMAIN e.budgetMap)

getRecentTransactions(e, count) == getTopN(e.recentStack, count)

filterByType(list, type) == SelectSeq(list, LAMBDA t : t.type = type)

\* ---- bills
GenBillId(counter) == <<98, 105, 108, 108, 95, 48, 95>> \o DigitChars(counter)

\* the payload of a bill's undo record
BillData(b) ==
    b.id \o <<Bar>> \o b.name \o <<Bar>> \o FormatDouble(b.amount) \o <<Bar>>
    \o b.dueDate \o <<Bar>> \o b.category

\* an addBill that leaves no record on the undo log
addBillUnrecorded(e, inp) ==
    LET b == Bill(GenBillId(e.billCounter + 1), inp.name, inp.amount, inp.dueDate,
                  inp.category)
    IN [e |-> [e EXCEPT !.billCounter = @ + 1, !.billQueue = enqueue(@, b)],
        ret |-> b]

addBill(e, inp) ==
    LET b == Bill(GenBillId(e.billCounter + 1), inp.name, inp.amount, inp.dueDate,
                  inp.category)
    IN [e |-> [e EXCEPT !.billCounter = @ + 1,
                        !.billQueue = enqueue(@, b),
                        !.undoStack = UndoPush(@, Action("ADD_BILL", BillData(b)))],
        ret |-> b]

getAllBills(e) == QueueGetAllBills(e.billQueue)

getOverdueBills(e, currentDate) == QueueGetOverdueBills(e.billQueue, currentDate)

\* a payBill that records the call before it looks the bill up
payBillRecordsFirst(e, id) ==
    [e |-> [e EXCEPT !.undoStack = UndoPush(@, Action("PAY_BILL", id)),
                     !.billQueue = markAsPaid(@, id).q],
     ret |-> markAsPaid(e.billQueue, id).ok]

payBill(e, id) ==
    IF QueueFindById(e.billQueue, id).found
    THEN [e |-> [e EXCEPT !.undoStack = UndoPush(@, Action("PAY_BILL", id)),
                          !.billQueue = markAsPaid(@, id).q],
          ret |-> markAsPaid(e.billQueue, id).ok]
    ELSE [e |-> e, ret |-> FALSE]

removeBill(e, id) ==
    LET f == QueueFindById(e.billQueue, id)
    IN IF f.found
       THEN [e |-> [e EXCEPT
                      !.undoStack = UndoPush(@, Action("DELETE_BILL", BillData(f.b))),
                      !.billQueue = removeById(@, id).q],
             ret |-> removeById(e.billQueue, id).ok]
       ELSE [e |-> e, ret |-> FALSE]

getNextBill(e) == peek(e.billQueue)

getBillCount(e) == e.billQueue.count

loadBill(e, id, inp, isPaid) ==
    [e EXCEPT !.billQueue =
         enqueue(@, [Bill(id, inp.name, inp.amount, inp.dueDate, inp.category)
                        EXCEPT !.isPaid = isPaid])]

\* ---- analytics
\* a getTopExpenses that ranks the heap as the adds left it
getTopExpensesNoRebuild(e, k) == [e |-> e, ret |-> getTopK(e.expenseHeap, k)]

\* the heap left by k rounds of extractMax
RECURSIVE HeapAfterK(_, _)
HeapAfterK(h, k) ==
    IF k <= 0 \/ h = <<>> THEN h ELSE HeapAfterK(extractMax(h).h, k - 1)

\* a getTopExpenses that ranks the heap of the adds and leaves it drained
getTopExpensesDrain(e, k) ==
    [e |-> [e EXCEPT !.expenseHeap = HeapAfterK(@, k)],
     ret |-> getTopK(e.expenseHeap, k)]

\* getTopExpenses rebuilds expenseHeap from the list's expenses, then ranks
getTopExpenses(e, k) ==
    LET heap == buildHeap(filterByType(e.transactionList, Expense))
    IN [e |-> [e EXCEPT !.expenseHeap = heap], ret |-> getTopK(heap, k)]

\* the pairs of expenseMap with a positive total, as CategoryAmounts
PositiveCategories(m) ==
    LET pairs == SelectSeq(getAllPairs(m), LAMBDA pr : pr.second > 0)
    IN [i \in 1..Len(pairs) |-> CategoryAmount(pairs[i].first, pairs[i].second)]

getTopCategories(e, k) ==
    LET heap == CategoryBuildHeap(PositiveCategories(e.expenseMap))
    IN [e |-> [e EXCEPT !.categoryHeap = heap], ret |-> CategoryGetTopK(heap, k)]

RECURSIVE SumAmounts(_)
SumAmounts(txs) ==
    IF txs = <<>> THEN 0 ELSE Head(txs).amount + SumAmounts(Tail(txs))

\* getMonthlySummary: one pass over the month's transactions; whatever is
\* not an income counts as an expense and adds to its category's entry.
\* categoryBreakdown is the content of the unordered_map (category to
\* total), whose iteration order decides the order of the vector
getMonthlySummary(e, yearMonth) ==
    LET transactions == getByMonth(e.transactionBST, yearMonth)
        incomes == SelectSeq(transactions, LAMBDA t : t.type = Income)
        others == SelectSeq(transactions, LAMBDA t : t.type # Income)
    IN [month |-> yearMonth,
        transactionCount |-> Len(transactions),
        totalIncome |-> SumAmounts(incomes),
        totalExpenses |-> SumAmounts(others),
        netSavings |-> SumAmounts(incomes) - SumAmounts(others),
        categoryBreakdown |->
            [c \in {others[i].category : i \in 1..Len(others)} |->
                 SumAmounts(SelectSeq(others, LAMBDA t : t.category = c))]]

\* ---- autocomplete
\* getWordsWithPrefix's default maxResults
DefaultMaxResults == 10

getCategorySuggestions(e, prefix) ==
    getWordsWithPrefix(e.categoryTrie, prefix, DefaultMaxResults)

\* getAllCategories, as the set of the words of the vector it returns
getAllCategories(e) == AllWordsOf(e.categoryTrie)

getPayeeSuggestions(e, prefix) ==
    getWordsWithPrefix(e.payeeTrie, prefix, DefaultMaxResults)

\* ---- budget alerts
\* getPercentUsed: (spent / limit) * 100, kept as the fraction num / den; for
\* the whole-number amounts of the model the rounding of the quotient and of
\* the product never moves the result across 50, 80 or 100
getPercentUsed(b) ==
    IF b.limit = 0 THEN [num |-> 0, den |-> 1]
    ELSE [num |-> b.spent * 100, den |-> b.limit]

\* percent >= n, for a fraction of either sign of denominator
PercentAtLeast(p, n) ==
    IF p.den > 0 THEN p.num >= n * p.den ELSE p.num <= n * p.den

\* an alert level whose thresholds are exclusive
getAlertLevelExclusive(b) ==
    LET percent == getPercentUsed(b)
    IN IF PercentAtLeast(percent, 100) /\ percent.num # 100 * percent.den
       THEN "exceeded"
       ELSE IF PercentAtLeast(percent, 80) /\ percent.num # 80 * percent.den
       THEN "warning"
       ELSE IF PercentAtLeast(percent, 50) /\ percent.num # 50 * percent.den
       THEN "caution"
       ELSE "normal"

getAlertLevel(b) ==
    LET percent == getPercentUsed(b)
    IN IF PercentAtLeast(percent, 100) THEN "exceeded"
       ELSE IF PercentAtLeast(percent, 80) THEN "warning"
       ELSE IF PercentAtLeast(percent, 50) THEN "caution"
       ELSE "normal"

getAllBudgets(e) ==
    LET pairs == getAllPairs(e.budgetMap)
    IN [i \in 1..Len(pairs) |-> pairs[i].second]

\* one alert per budget that is not "normal", in getAllBudgets' order (the
\* message text is left out)
getBudgetAlerts(e) ==
    LET flagged == SelectSeq(getAllBudgets(e),
                             LAMBDA b : getAlertLevel(b) # "normal")
    IN [i \in 1..Len(flagged) |->
           [category |-> flagged[i].category,
            level |-> getAlertLevel(flagged[i]),
            percentUsed |-> getPercentUsed(flagged[i]),
            spent |-> flagged[i].spent,
            limit |-> flagged[i].limit]]

\* ------------------------------------------------------------------- state
VARIABLES
    transactionList,    \* FinanceEngine::transactionList, head to tail
    transactionBST,     \* FinanceEngine::transactionBST, the root node
    expenseMap,         \* FinanceEngine::expenseMap
    budgetMap,          \* FinanceEngine::budgetMap
    undoStack,          \* FinanceEngine::undoStack
    txnCounter,         \* generateId's static counter
    loadCount,          \* loadTransaction calls so far
    budgetSets,         \* setBudget calls so far
    budgetLoads,        \* loadBudget calls so far
    insertOrder,        \* history: ids in the tree, in the order BST::insert took them
    recentStack,        \* FinanceEngine::recentStack
    expenseHeap,        \* FinanceEngine::expenseHeap, the heap vector
    categoryHeap,       \* FinanceEngine::categoryHeap, the heap vector
    billQueue,          \* FinanceEngine::billQueue
    billCounter,        \* generateBillId's static counter
    categoryTrie,       \* FinanceEngine::categoryTrie
    payeeTrie,          \* FinanceEngine::payeeTrie
    billLoads,          \* loadBill calls so far
    billOrder           \* history: the bills enqueued and not removed, oldest first

engineVars ==
    <<transactionList, transactionBST, expenseMap, budgetMap, undoStack, txnCounter,
      recentStack, expenseHeap, categoryHeap, billQueue, billCounter,
      categoryTrie, payeeTrie>>

vars ==
    <<transactionList, transactionBST, expenseMap, budgetMap, undoStack, txnCounter,
      loadCount, budgetSets, budgetLoads, insertOrder,
      recentStack, expenseHeap, categoryHeap, billQueue, billCounter,
      categoryTrie, payeeTrie, billLoads, billOrder>>

\* the engine the variables describe
Eng ==
    [transactionList |-> transactionList, transactionBST |-> transactionBST,
     expenseMap |-> expenseMap, budgetMap |-> budgetMap,
     undoStack |-> undoStack, txnCounter |-> txnCounter,
     recentStack |-> recentStack, expenseHeap |-> expenseHeap,
     categoryHeap |-> categoryHeap, billQueue |-> billQueue,
     billCounter |-> billCounter, categoryTrie |-> categoryTrie,
     payeeTrie |-> payeeTrie]

\* the ids held by the tree's buckets
TreeIds(root) == {inorderHelper(root)[i].id : i \in 1..Len(inorderHelper(root))}

SetToSeq(S) ==
    IF S = {} THEN <<>>
    ELSE LET x == CHOOSE x \in S : TRUE IN <<x>>

RECURSIVE KeepIds(_, _)
KeepIds(seq, S) ==
    IF seq = <<>> THEN <<>>
    ELSE IF Head(seq) \in S THEN <<Head(seq)>> \o KeepIds(Tail(seq), S)
    ELSE KeepIds(Tail(seq), S)

\* an operation inserts at most one transaction into the tree: ids that
\* left the tree are dropped from the history, the new id goes last
Commit(e) ==
    /\ insertOrder' =
           KeepIds(insertOrder, TreeIds(e.transactionBST))
           \o SetToSeq(TreeIds(e.transactionBST) \ TreeIds(transactionBST))
    /\ transactionList' = e.transactionList
    /\ transactionBST' = e.transactionBST
    /\ expenseMap' = e.expenseMap
    /\ budgetMap' = e.budgetMap
    /\ undoStack' = e.undoStack
    /\ txnCounter' = e.txnCounter
    /\ recentStack' = e.recentStack
    /\ expenseHeap' = e.expenseHeap
    /\ categoryHeap' = e.categoryHeap
    /\ billQueue' = e.billQueue
    /\ billCounter' = e.billCounter
    /\ categoryTrie' = e.categoryTrie
    /\ payeeTrie' = e.payeeTrie

\* every id a transaction of a run can carry
TxnIds ==
    {GenId(n) : n \in 1..MaxAdds} \cup {LoadId(n) : n \in 1..MaxLoads}
    \cup {LoadId(n) : n \in 1..MaxTopLoads}

\* the state right after FinanceEngine's constructor
Init ==
    /\ transactionList = <<>>
    /\ transactionBST = NilNode
    /\ expenseMap = EmptyMap
    /\ budgetMap = EmptyMap
    /\ undoStack = NewUndoStack(UndoMaxSize)
    /\ txnCounter = 0
    /\ loadCount = 0
    /\ budgetSets = 0
    /\ budgetLoads = 0
    /\ insertOrder = <<>>
    /\ recentStack = NewEngine.recentStack
    /\ expenseHeap = NewEngine.expenseHeap
    /\ categoryHeap = NewEngine.categoryHeap
    /\ billQueue = NewEngine.billQueue
    /\ billCounter = 0
    /\ categoryTrie = NewEngine.categoryTrie
    /\ payeeTrie = NewEngine.payeeTrie
    /\ billLoads = 0
    /\ billOrder = <<>>

\* ----------------------------------------------------------------- actions
AddTransaction ==
    /\ txnCounter < MaxAdds
    /\ \E inp \in TxnInputs : Commit(addTransaction(Eng, inp).e)
    /\ UNCHANGED <<loadCount, budgetSets, budgetLoads, billLoads, billOrder>>

\* any id, present or not
DeleteTransaction ==
    /\ \E id \in TxnIds : Commit(deleteTransaction(Eng, id).e)
    /\ UNCHANGED <<loadCount, budgetSets, budgetLoads, billLoads, billOrder>>

SetBudget ==
    /\ budgetSets < MaxSetBudgets
    /\ \E b \in BudgetInputs : Commit(setBudget(Eng, b.category, b.limit))
    /\ budgetSets' = budgetSets + 1
    /\ UNCHANGED <<loadCount, budgetLoads, billLoads, billOrder>>

Undo ==
    /\ Commit(undo(Eng).e)
    /\ UNCHANGED <<loadCount, budgetSets, budgetLoads, billLoads, billOrder>>

LoadTransaction ==
    /\ loadCount < MaxLoads
    /\ \E inp \in TxnInputs : Commit(loadTransaction(Eng, LoadId(loadCount + 1), inp))
    /\ loadCount' = loadCount + 1
    /\ UNCHANGED <<budgetSets, budgetLoads, billLoads, billOrder>>

LoadBudget ==
    /\ budgetLoads < MaxLoadBudgets
    /\ \E b \in BudgetInputs : Commit(loadBudget(Eng, b.category, b.limit))
    /\ budgetLoads' = budgetLoads + 1
    /\ UNCHANGED <<loadCount, budgetSets, billLoads, billOrder>>

ClearAll ==
    /\ Commit(clearAll(Eng))
    /\ billOrder' = <<>>
    /\ UNCHANGED <<loadCount, budgetSets, budgetLoads, billLoads>>

Next ==
    \/ AddTransaction
    \/ DeleteTransaction
    \/ SetBudget
    \/ Undo
    \/ LoadTransaction
    \/ LoadBudget
    \/ ClearAll

Spec == Init /\ [][Next]_vars

\* ---- every operation but clearAll
NextNoClear ==
    \/ AddTransaction
    \/ DeleteTransaction
    \/ SetBudget
    \/ Undo
    \/ LoadTransaction
    \/ LoadBudget

SpecNoClear == Init /\ [][NextNoClear]_vars

\* ---- runs that rank expenses: up to MaxTopLoads loaded transactions
TopKs == (0 - 1)..(MaxTopLoads + 1)

\* the k of the calls that move the engine (every k leaves the same heap)
CallKs == {0, 2}

TopInputs ==
    {TxnIn(Expense, 10, CatFood, <<>>, Date0115),
     TxnIn(Expense, 20, CatFood, <<>>, Date0115),
     TxnIn(Expense, 30, CatRent, <<>>, Date0105),
     TxnIn(Income, 40, CatFood, <<>>, Date0115)}

LoadTop ==
    /\ loadCount < MaxTopLoads
    /\ \E inp \in TopInputs : Commit(loadTransaction(Eng, LoadId(loadCount + 1), inp))
    /\ loadCount' = loadCount + 1
    /\ UNCHANGED <<budgetSets, budgetLoads, billLoads, billOrder>>

GetTopExpenses ==
    /\ \E k \in CallKs : Commit(getTopExpenses(Eng, k).e)
    /\ UNCHANGED <<loadCount, budgetSets, budgetLoads, billLoads, billOrder>>

GetTopCategories ==
    /\ \E k \in CallKs : Commit(getTopCategories(Eng, k).e)
    /\ UNCHANGED <<loadCount, budgetSets, budgetLoads, billLoads, billOrder>>

NextTop ==
    \/ LoadTop
    \/ DeleteTransaction
    \/ ClearAll
    \/ GetTopExpenses
    \/ GetTopCategories

SpecTop == Init /\ [][NextTop]_vars

\* ---- runs on the bill schedule
BillIn(name, amount, dueDate, category) ==
    [name |-> name, amount |-> amount, dueDate |-> dueDate, category |-> category]

BillInputs ==
    {BillIn(<<120>>, 10, Date0115, CatFood),
     BillIn(<<121>>, 20, Date0105, CatRent)}

LoadBillId(n) == <<66>> \o DigitChars(n)

BillIds ==
    {GenBillId(n) : n \in 1..MaxBills} \cup {LoadBillId(n) : n \in 1..MaxBillLoads}

\* the history without the first bill that carries the id
RECURSIVE DropBill(_, _)
DropBill(seq, id) ==
    IF seq = <<>> THEN <<>>
    ELSE IF Head(seq).id = id THEN Tail(seq)
    ELSE <<Head(seq)>> \o DropBill(Tail(seq), id)

BillFrame == UNCHANGED <<loadCount, budgetSets, budgetLoads>>

AddBill ==
    /\ billCounter < MaxBills
    /\ \E inp \in BillInputs :
           /\ Commit(addBill(Eng, inp).e)
           /\ billOrder' = Append(billOrder, addBill(Eng, inp).ret)
    /\ UNCHANGED billLoads
    /\ BillFrame

LoadBill ==
    /\ billLoads < MaxBillLoads
    /\ \E inp \in BillInputs, isPaid \in BOOLEAN :
           /\ Commit(loadBill(Eng, LoadBillId(billLoads + 1), inp, isPaid))
           /\ billOrder' =
                  Append(billOrder,
                         Bill(LoadBillId(billLoads + 1), inp.name, inp.amount,
                              inp.dueDate, inp.category))
    /\ billLoads' = billLoads + 1
    /\ BillFrame

\* any id, present or not
PayBill ==
    /\ \E id \in BillIds : Commit(payBill(Eng, id).e)
    /\ UNCHANGED <<billLoads, billOrder>>
    /\ BillFrame

RemoveBill ==
    /\ \E id \in BillIds :
           /\ Commit(removeBill(Eng, id).e)
           /\ billOrder' = DropBill(billOrder, id)
    /\ UNCHANGED billLoads
    /\ BillFrame

NextBills ==
    \/ AddBill
    \/ LoadBill
    \/ PayBill
    \/ RemoveBill
    \/ LoadTransaction
    \/ Undo
    \/ ClearAll

SpecBills == Init /\ [][NextBills]_vars

\* ---- runs that feed the tries: a category the constructor does not seed,
\* one that differs from a seeded one by case only, and an empty one
CatGym == <<71, 121, 109>>                          \* "Gym"
CatFoodLower == <<102, 111, 111, 100>>              \* "food"

WordCategories == {CatGym, CatFoodLower, <<>>}

WordInputs ==
    {TxnIn(Expense, 10, CatGym, <<97>>, Date0115),
     TxnIn(Expense, 10, CatFoodLower, <<65>>, Date0115),
     TxnIn(Income, 10, <<>>, <<>>, Date0105)}

\* the calls so far that handed words to the tries
WordCalls == txnCounter + loadCount + budgetSets + budgetLoads

AddWordTransaction ==
    /\ txnCounter < MaxAdds
    /\ WordCalls < MaxWordCalls
    /\ \E inp \in WordInputs : Commit(addTransaction(Eng, inp).e)
    /\ UNCHANGED <<loadCount, budgetSets, budgetLoads, billLoads, billOrder>>

LoadWordTransaction ==
    /\ loadCount < MaxLoads
    /\ WordCalls < MaxWordCalls
    /\ \E inp \in WordInputs : Commit(loadTransaction(Eng, LoadId(loadCount + 1), inp))
    /\ loadCount' = loadCount + 1
    /\ UNCHANGED <<budgetSets, budgetLoads, billLoads, billOrder>>

SetWordBudget ==
    /\ budgetSets < MaxSetBudgets
    /\ WordCalls < MaxWordCalls
    /\ \E c \in WordCategories : Commit(setBudget(Eng, c, 100))
    /\ budgetSets' = budgetSets + 1
    /\ UNCHANGED <<loadCount, budgetLoads, billLoads, billOrder>>

LoadWordBudget ==
    /\ budgetLoads < MaxLoadBudgets
    /\ WordCalls < MaxWordCalls
    /\ \E c \in WordCategories : Commit(loadBudget(Eng, c, 100))
    /\ budgetLoads' = budgetLoads + 1
    /\ UNCHANGED <<loadCount, budgetSets, billLoads, billOrder>>

\* one bill at most, so that removeBill has something to remove
WordBill == BillIn(<<120>>, 10, Date0115, CatGym)

AddWordBill ==
    /\ billCounter < MaxWordBills
    /\ Commit(addBill(Eng, WordBill).e)
    /\ billOrder' = Append(billOrder, addBill(Eng, WordBill).ret)
    /\ UNCHANGED billLoads
    /\ BillFrame

NextWords ==
    \/ AddWordTransaction
    \/ LoadWordTransaction
    \/ SetWordBudget
    \/ LoadWordBudget
    \/ DeleteTransaction
    \/ Undo
    \/ AddWordBill
    \/ RemoveBill
    \/ ClearAll

SpecWords == Init /\ [][NextWords]_vars

\* ---- runs that are summed by month: transactions on the first and on the
\* last day of a month, in the next month, and in the same month of another
\* year
Date0101 == <<50, 48, 50, 52, 45, 48, 49, 45, 48, 49>>   \* "2024-01-01"
Date0131 == <<50, 48, 50, 52, 45, 48, 49, 45, 51, 49>>   \* "2024-01-31"
Date230115 == <<50, 48, 50, 51, 45, 48, 49, 45, 49, 53>> \* "2023-01-15"

MonthInputs ==
    {TxnIn(Expense, 50, CatFood, <<>>, Date0101),
     TxnIn(Expense, 30, CatRent, <<>>, Date0131),
     TxnIn(Income, 1000, CatFood, <<>>, Date0115),
     TxnIn(Expense, 20, CatFood, <<>>, Date230115),
     TxnIn(Expense, 70, CatFood, <<>>, Date0210)}

\* the months asked for: those in use, one with no transaction, and the
\* month before the first of the year
Months ==
    {<<50, 48, 50, 52, 45, 48, 49>>, <<50, 48, 50, 52, 45, 48, 50>>,
     <<50, 48, 50, 51, 45, 48, 49>>, <<50, 48, 50, 52, 45, 48, 51>>,
     <<50, 48, 50, 51, 45, 49, 50>>}

AddMonthTransaction ==
    /\ txnCounter < MaxAdds
    /\ \E inp \in MonthInputs : Commit(addTransaction(Eng, inp).e)
    /\ UNCHANGED <<loadCount, budgetSets, budgetLoads, billLoads, billOrder>>

LoadMonthTransaction ==
    /\ loadCount < MaxMonthLoads
    /\ \E inp \in MonthInputs : Commit(loadTransaction(Eng, LoadId(loadCount + 1), inp))
    /\ loadCount' = loadCount + 1
    /\ UNCHANGED <<budgetSets, budgetLoads, billLoads, billOrder>>

NextMonths ==
    \/ AddMonthTransaction
    \/ LoadMonthTransaction
    \/ DeleteTransaction
    \/ Undo
    \/ ClearAll

SpecMonths == Init /\ [][NextMonths]_vars

\* ---- runs whose ids are compared: up to MaxIdAdds transactions and
\* MaxBills bills are created, with deletes, undos and clearAll in between
IdTxnInput == TxnIn(Expense, 50, CatFood, <<>>, Date0115)

IdBillInput == BillIn(<<120>>, 10, Date0115, CatFood)

AddIdTransaction ==
    /\ txnCounter < MaxIdAdds
    /\ Commit(addTransaction(Eng, IdTxnInput).e)
    /\ UNCHANGED <<loadCount, budgetSets, budgetLoads, billLoads, billOrder>>

DeleteIdTransaction ==
    /\ \E n \in 1..MaxIdAdds : Commit(deleteTransaction(Eng, GenId(n)).e)
    /\ UNCHANGED <<loadCount, budgetSets, budgetLoads, billLoads, billOrder>>

AddIdBill ==
    /\ billCounter < MaxBills
    /\ Commit(addBill(Eng, IdBillInput).e)
    /\ billOrder' = Append(billOrder, addBill(Eng, IdBillInput).ret)
    /\ UNCHANGED billLoads
    /\ BillFrame

NextIds ==
    \/ AddIdTransaction
    \/ DeleteIdTransaction
    \/ Undo
    \/ ClearAll
    \/ AddIdBill
    \/ RemoveBill

SpecIds == Init /\ [][NextIds]_vars

\* ---- a TransactionStack on its own (held in recentStack), built with any
\* cap from 1 to MaxCap; the n-th push carries the id LoadId(n)
RecentInit ==
    /\ transactionList = <<>>
    /\ transactionBST = NilNode
    /\ expenseMap = EmptyMap
    /\ budgetMap = EmptyMap
    /\ undoStack = NewUndoStack(UndoMaxSize)
    /\ txnCounter = 0
    /\ loadCount = 0
    /\ budgetSets = 0
    /\ budgetLoads = 0
    /\ insertOrder = <<>>
    /\ recentStack \in {NewTransactionStack(m) : m \in 1..MaxCap}
    /\ expenseHeap = NewEngine.expenseHeap
    /\ categoryHeap = NewEngine.categoryHeap
    /\ billQueue = NewEngine.billQueue
    /\ billCounter = 0
    /\ categoryTrie = NewEngine.categoryTrie
    /\ payeeTrie = NewEngine.payeeTrie
    /\ billLoads = 0
    /\ billOrder = <<>>

RecentInputs ==
    {TxnIn(Expense, 10, CatFood, <<>>, Date0115),
     TxnIn(Income, 40, CatFood, <<>>, Date0115)}

RecentFrame ==
    UNCHANGED <<transactionList, transactionBST, expenseMap, budgetMap, undoStack,
                txnCounter, budgetSets, budgetLoads, insertOrder,
                expenseHeap, categoryHeap, billQueue, billCounter,
                categoryTrie, payeeTrie, billLoads, billOrder>>

RecentPush ==
    /\ loadCount < MaxPushes
    /\ \E inp \in RecentInputs :
           recentStack' =
               TransactionStackPush(recentStack,
                                    Txn(LoadId(loadCount + 1), inp.type, inp.amount,
                                        inp.category, inp.description, inp.date))
    /\ loadCount' = loadCount + 1
    /\ RecentFrame

RecentClear ==
    /\ recentStack' = TransactionStackClear(recentStack)
    /\ UNCHANGED loadCount
    /\ RecentFrame

RecentNext ==
    \/ RecentPush
    \/ RecentClear

RecentSpec == RecentInit /\ [][RecentNext]_vars

\* ---- a Trie on its own (held in payeeTrie): words of up to three letters
\* in either case, the empty word among them
TrieWords ==
    {<<>>, <<65>>, <<97>>, <<66>>, <<98>>, <<65, 98>>, <<97, 66>>,
     <<65, 68>>, <<97, 100>>, <<65, 66, 67>>, <<97, 98, 99>>}

\* the prefixes asked for: every word, and two that lead nowhere
TriePrefixes == TrieWords \cup {<<120>>, <<97, 99>>}

TrieFrame ==
    UNCHANGED <<transactionList, transactionBST, expenseMap, budgetMap, undoStack,
                txnCounter, loadCount, budgetSets, budgetLoads, insertOrder,
                recentStack, expenseHeap, categoryHeap, billQueue, billCounter,
                categoryTrie, billLoads, billOrder>>

TrieInsertWord ==
    /\ \E w \in TrieWords : payeeTrie' = TrieInsert(payeeTrie, w)
    /\ TrieFrame

TrieRemoveWord ==
    /\ \E w \in TrieWords : payeeTrie' = TrieRemove(payeeTrie, w).trie
    /\ TrieFrame

TrieClearWords ==
    /\ payeeTrie' = TrieClear(payeeTrie)
    /\ TrieFrame

TrieNext ==
    \/ TrieInsertWord
    \/ TrieRemoveWord
    \/ TrieClearWords

TrieSpec == Init /\ [][TrieNext]_vars

\* ---- an UndoStack on its own, built with any capacity from 1 to MaxCap
ActionTypes ==
    {"ADD_TRANSACTION", "DELETE_TRANSACTION", "ADD_BUDGET", "UPDATE_BUDGET",
     "ADD_BILL", "DELETE_BILL", "PAY_BILL"}

StackInit ==
    /\ transactionList = <<>>
    /\ transactionBST = NilNode
    /\ expenseMap = EmptyMap
    /\ budgetMap = EmptyMap
    /\ undoStack \in {NewUndoStack(m) : m \in 1..MaxCap}
    /\ txnCounter = 0
    /\ loadCount = 0
    /\ budgetSets = 0
    /\ budgetLoads = 0
    /\ insertOrder = <<>>
    /\ recentStack = NewEngine.recentStack
    /\ expenseHeap = NewEngine.expenseHeap
    /\ categoryHeap = NewEngine.categoryHeap
    /\ billQueue = NewEngine.billQueue
    /\ billCounter = 0
    /\ categoryTrie = NewEngine.categoryTrie
    /\ payeeTrie = NewEngine.payeeTrie
    /\ billLoads = 0
    /\ billOrder = <<>>

StackFrame ==
    UNCHANGED <<transactionList, transactionBST, expenseMap, budgetMap, txnCounter,
                loadCount, budgetSets, budgetLoads, insertOrder,
                recentStack, expenseHeap, categoryHeap, billQueue, billCounter,
                categoryTrie, payeeTrie, billLoads, billOrder>>

StackPush ==
    /\ \E ty \in ActionTypes : undoStack' = UndoPush(undoStack, Action(ty, <<>>))
    /\ StackFrame

StackPop ==
    /\ undoStack' = UndoPop(undoStack).st
    /\ StackFrame

StackClear ==
    /\ undoStack' = UndoClear(undoStack)
    /\ StackFrame

StackNext ==
    \/ StackPush
    \/ StackPop
    \/ StackClear

StackSpec == StackInit /\ [][StackNext]_vars

\* ================================================================== claims
SeqToSet(seq) == {seq[i] : i \in 1..Len(seq)}

Ids(seq) == {seq[i].id : i \in 1..Len(seq)}

\* the sum of the amounts of the transactions of one kind
RECURSIVE SumOfKind(_, _)
SumOfKind(txs, kind) ==
    IF txs = <<>> THEN 0
    ELSE (IF Head(txs).type = kind THEN Head(txs).amount ELSE 0)
         + SumOfKind(Tail(txs), kind)

\* the sum of the amounts of the expenses of one category
RECURSIVE ExpenseSumIn(_, _)
ExpenseSumIn(txs, category) ==
    IF txs = <<>> THEN 0
    ELSE (IF Head(txs).type = Expense /\ Head(txs).category = category
          THEN Head(txs).amount ELSE 0)
         + ExpenseSumIn(Tail(txs), category)

DatesAscending(txs) ==
    \A i, j \in 1..Len(txs) : i < j => StrLeq(txs[i].date, txs[j].date)

\* the place of an id in the insertion history
PosIn(seq, id) == CHOOSE i \in 1..Len(seq) : seq[i] = id

\* same-date neighbours keep the order in which BST::insert took them
InsertionOrderWithinDate(txs) ==
    \A i, j \in 1..Len(txs) :
        (i < j /\ txs[i].date = txs[j].date)
            => PosIn(insertOrder, txs[i].id) < PosIn(insertOrder, txs[j].id)

\* C1: after any sequence of addTransaction, deleteTransaction,
\* loadTransaction and undo calls, getTotalBalance() is the sum of the income
\* amounts in the Ledger minus the sum of the expense amounts in the Ledger.
BalanceInvariant ==
    getTotalBalance(Eng)
        = SumOfKind(transactionList, Income) - SumOfKind(transactionList, Expense)

\* the Ledger holds an income and an expense, and an undo record is logged
BalanceWitness ==
    /\ \E i, j \in 1..Len(transactionList) :
           transactionList[i].type = Income /\ transactionList[j].type = Expense
    /\ canUndo(Eng)
    /\ getTotalBalance(Eng) # 0

\* C2: for a category with a Budget, after adds and deletes of expenses the
\* Budget's spent is the sum of the amounts of the category's expenses in the
\* Ledger, whether the Budget came before or after the transactions.
BudgetSync ==
    \A c \in Categories :
        getBudget(Eng, c).found
            => getBudget(Eng, c).budget.spent = ExpenseSumIn(transactionList, c)

\* setBudget was the last recorded action, on a category that already had
\* an expense in the Ledger
BudgetSyncWitness ==
    /\ undoStack.nodes # <<>>
    /\ Head(undoStack.nodes).type = "ADD_BUDGET"
    /\ \E c \in Categories :
           /\ getBudget(Eng, c).found
           /\ getBudget(Eng, c).budget.spent > 0
           /\ ExpenseSumIn(transactionList, c) > 0

\* C3: after every mutating call (clearAll included), every Budget's spent
\* is the sum of the amounts of the expenses of its category in the Ledger.
BudgetMirrorsLedger ==
    \A c \in DOMAIN budgetMap :
        budgetMap[c].spent = ExpenseSumIn(transactionList, budgetMap[c].category)

\* C4: for every pair of dates, getTransactionsInRange returns exactly the
\* Ledger's transactions dated within [start, end], each once, in ascending
\* date order, same-date transactions in the order the index took them.
RangeCorrectness ==
    \A startDate, endDate \in QueryDates :
        LET r == getTransactionsInRange(Eng, startDate, endDate)
        IN /\ SeqToSet(r) =
                 {t \in SeqToSet(getAllTransactions(Eng)) :
                      StrLeq(startDate, t.date) /\ StrLeq(t.date, endDate)}
           /\ Cardinality(Ids(r)) = Len(r)
           /\ DatesAscending(r)
           /\ InsertionOrderWithinDate(r)

\* two transactions on different dates, and a range that holds only the
\* later one although the tree has both
RangeWitness ==
    /\ Len(transactionList) = 2
    /\ transactionList[1].date # transactionList[2].date
    /\ \E startDate, endDate \in Dates :
           /\ startDate = endDate
           /\ Len(getTransactionsInRange(Eng, startDate, endDate)) = 1

\* C10: the DateIndex and the Ledger hold the same transactions: the
\* ascending traversal has each Ledger transaction once and nothing else, in
\* non-decreasing date order, same-date transactions in insertion order.
DateIndexMatchesLedger ==
    LET asc == getTransactionsByDateAsc(Eng)
    IN /\ SeqToSet(asc) = SeqToSet(getAllTransactions(Eng))
       /\ Len(asc) = Len(getAllTransactions(Eng))
       /\ Cardinality(Ids(asc)) = Len(asc)
       /\ DatesAscending(asc)
       /\ InsertionOrderWithinDate(asc)

\* two transactions share a date, after a delete was undone
DateIndexWitness ==
    /\ Len(transactionList) = 2
    /\ transactionList[1].date = transactionList[2].date
    /\ transactionList[1].id = LoadId(1)
    /\ transactionList[2].id = GenId(1)

\* the id a record's payload starts with
RecordId(a) == GetLine(a.data, 1, Bar).tok

\* what getBudget shows of a category's spending
SpentShown(e, category) ==
    IF getBudget(e, category).found
    THEN <<TRUE, getBudget(e, category).budget.spent>>
    ELSE <<FALSE>>

\* C5: in every reachable state, addTransaction followed at once by undo
\* restores getAllTransactions(), getTotalBalance() and the category's
\* getBudget().spent, leaves canUndo() as it was, and leaves no record of
\* the add or of the compensating delete on the log.
AddThenUndoRestores ==
    \A inp \in TxnInputs :
        LET a == addTransaction(Eng, inp)
            u == undo(a.e)
        IN /\ u.ret
           /\ getAllTransactions(u.e) = getAllTransactions(Eng)
           /\ getTotalBalance(u.e) = getTotalBalance(Eng)
           /\ SpentShown(u.e, inp.category) = SpentShown(Eng, inp.category)
           /\ canUndo(u.e) = canUndo(Eng)
           /\ \A i \in 1..Len(u.e.undoStack.nodes) :
                  RecordId(u.e.undoStack.nodes[i]) # a.ret.id

\* the log is at capacity, the Ledger is not empty, and some expense moves
\* the balance and its category's Budget when added and back when undone
AddThenUndoWitness ==
    /\ undoStack.count = undoStack.maxSize
    /\ transactionList # <<>>
    /\ \E inp \in TxnInputs :
           LET a == addTransaction(Eng, inp)
               u == undo(a.e)
           IN /\ getBudget(Eng, inp.category).found
              /\ SpentShown(a.e, inp.category) # SpentShown(Eng, inp.category)
              /\ getTotalBalance(a.e) # getTotalBalance(Eng)
              /\ SpentShown(u.e, inp.category) = SpentShown(Eng, inp.category)
              /\ getTotalBalance(u.e) = getTotalBalance(Eng)

\* C6: a successful deleteTransaction(id) followed at once by undo puts back
\* a transaction with the same id, kind, amount, category, description and
\* date, so that the Ledger's transactions, the DateIndex content, the
\* balance and the category's expense total are as before the delete.
DeleteThenUndoRestores ==
    \A i \in 1..Len(transactionList) :
        LET t == transactionList[i]
            d == deleteTransaction(Eng, t.id)
            u == undo(d.e).e
        IN d.ret =>
             /\ t \in SeqToSet(getAllTransactions(u))
             /\ SeqToSet(getAllTransactions(u)) = SeqToSet(getAllTransactions(Eng))
             /\ SeqToSet(getTransactionsByDateAsc(u))
                    = SeqToSet(getTransactionsByDateAsc(Eng))
             /\ getTotalBalance(u) = getTotalBalance(Eng)
             /\ MapSearch(u.expenseMap, t.category, 0)
                    = MapSearch(expenseMap, t.category, 0)

\* ---- runs of calls and runs of undos
FwdCalls ==
    {[op |-> "addTransaction", inp |-> inp] : inp \in TxnInputs}
    \cup {[op |-> "deleteTransaction", id |-> id] :
              id \in TxnIds \cup {GenId(n) : n \in 1..(MaxAdds + MaxRun)}}
    \cup {[op |-> "setBudget", b |-> b] : b \in BudgetInputs}

\* the engine after one call, and whether the call succeeded
ApplyCall(e, c) ==
    CASE c.op = "addTransaction" -> [e |-> addTransaction(e, c.inp).e, ret |-> TRUE]
      [] c.op = "deleteTransaction" -> deleteTransaction(e, c.id)
      [] c.op = "setBudget" -> [e |-> setBudget(e, c.b.category, c.b.limit), ret |-> TRUE]

\* the engines passed through by a run of calls, the starting one first
RECURSIVE EnginesOfRun(_, _)
EnginesOfRun(e, calls) ==
    IF calls = <<>> THEN <<e>>
    ELSE <<e>> \o EnginesOfRun(ApplyCall(e, Head(calls)).e, Tail(calls))

RECURSIVE RunSucceeds(_, _)
RunSucceeds(e, calls) ==
    IF calls = <<>> THEN TRUE
    ELSE ApplyCall(e, Head(calls)).ret
         /\ RunSucceeds(ApplyCall(e, Head(calls)).e, Tail(calls))

\* what a run of undos must bring back
Restorable(e) ==
    [ledger |-> SeqToSet(getAllTransactions(e)),
     dateIndex |-> SeqToSet(getTransactionsByDateAsc(e)),
     balance |-> getTotalBalance(e),
     budgets |-> e.budgetMap]

\* k undos from e: each returns true and takes the log back to what it was
\* one call earlier in the run; after the last one the engine shows what it
\* showed before the run and nothing is left to undo
RECURSIVE UndosRetrace(_, _)
UndosRetrace(e, passed) ==
    IF Len(passed) = 1
    THEN Restorable(e) = Restorable(passed[1]) /\ ~canUndo(e)
    ELSE LET u == undo(e)
         IN /\ u.ret
            /\ u.e.undoStack = passed[Len(passed) - 1].undoStack
            /\ UndosRetrace(u.e, SubSeq(passed, 1, Len(passed) - 1))

\* C7: from an empty undo log, k successful calls of addTransaction,
\* deleteTransaction and setBudget (k within the capacity) followed by k
\* undos: every undo returns true, the calls are reversed last-first, the
\* Ledger's transactions, the DateIndex content, the balance and every
\* Budget are as before the run, and canUndo() is false.
UndoRetracesRun ==
    UndoIsEmpty(undoStack) =>
        \A k \in 1..MaxRun :
            k <= undoStack.maxSize =>
                \A calls \in [1..k -> FwdCalls] :
                    RunSucceeds(Eng, calls) =>
                        LET passed == EnginesOfRun(Eng, calls)
                        IN UndosRetrace(passed[Len(passed)], passed)

\* C8: for every capacity maxSize >= 1 and every sequence of push, pop and
\* clear, the log never holds more than maxSize records and size() is the
\* number of records linked in the stack.
UndoLogBounded ==
    /\ undoStack.count <= undoStack.maxSize
    /\ undoStack.count = Len(undoStack.nodes)

\* C9: a push on a log at capacity discards exactly one record, the oldest,
\* and keeps the others in order under the new record.
PushAtCapacityDropsOldest ==
    (undoStack.count = undoStack.maxSize) =>
        \A ty \in ActionTypes :
            UndoPush(undoStack, Action(ty, <<>>)).nodes
                = <<Action(ty, <<>>)>>
                  \o SubSeq(undoStack.nodes, 1, Len(undoStack.nodes) - 1)

\* the transaction ids named by the records of the undo log
UndoLogTxnIds ==
    {RecordId(undoStack.nodes[i]) :
        i \in {j \in 1..Len(undoStack.nodes) :
                  undoStack.nodes[j].type \in {"ADD_TRANSACTION", "DELETE_TRANSACTION"}}}

\* C11: after every mutating call, every transaction id in the DateIndex,
\* in the RecentView or in the payload of a record of the undo log is the
\* id of a transaction in the Ledger.
ReferencedIdsInLedger ==
    /\ TreeIds(transactionBST) \subseteq Ids(getAllTransactions(Eng))
    /\ Ids(getRecentTransactions(Eng, RecentMaxSize)) \subseteq Ids(getAllTransactions(Eng))
    /\ UndoLogTxnIds \subseteq Ids(getAllTransactions(Eng))

\* C12: canUndo() is true exactly when the undo log holds a record; undo()
\* on an empty log returns false and leaves the Ledger, the DateIndex, the
\* category totals, the budgets, the bills, the RecentView, the tries and
\* the log as they were.
UndoOnEmptyLog ==
    /\ canUndo(Eng) <=> (undoStack.nodes # <<>>)
    /\ (undoStack.nodes = <<>>) => undo(Eng) = [e |-> Eng, ret |-> FALSE]

\* the log is empty again after records were pushed and popped, while the
\* Ledger and the schedule hold something
UndoOnEmptyLogWitness ==
    /\ undoStack.nodes = <<>>
    /\ billCounter > 0
    /\ billQueue.nodes # <<>>
    /\ transactionList # <<>>
    /\ ~undo(Eng).ret

\* the engine without its undo log
WithoutLog(e) == [e EXCEPT !.undoStack = NewUndoStack(UndoMaxSize)]

\* C13: undo() returns true if and only if the call reversed a recorded
\* action on some structure other than the undo log.
UndoReportsEffect ==
    undo(Eng).ret <=> (WithoutLog(undo(Eng).e) # WithoutLog(Eng))

\* an id no transaction of the run carries yet, and one for a bill
FreshTxnId == LoadId(loadCount + 1)

FreshBillId == LoadBillId(billLoads + 1)

\* the log and what the next undo does with it
LogView(e) ==
    [log |-> e.undoStack, canUndo |-> canUndo(e), undone |-> undo(e).ret,
     logAfterUndo |-> undo(e).e.undoStack]

\* C14: loadTransaction, loadBudget and loadBill leave the undo log (its
\* records, their order, canUndo()) as it was, and an undo() after a load
\* pops what it would have popped before the load and keeps what was loaded.
LoadsBypassUndo ==
    /\ \A inp \in TxnInputs :
           LET l == loadTransaction(Eng, FreshTxnId, inp)
           IN /\ LogView(l) = LogView(Eng)
              /\ FreshTxnId \in Ids(getAllTransactions(undo(l).e))
    /\ \A b \in BudgetInputs :
           LogView(loadBudget(Eng, b.category, b.limit)) = LogView(Eng)
    /\ \A inp \in BillInputs, isPaid \in BOOLEAN :
           LET l == loadBill(Eng, FreshBillId, inp, isPaid)
           IN /\ LogView(l) = LogView(Eng)
              /\ FreshBillId \in Ids(getAllBills(undo(l).e))

\* a transaction and a bill were loaded and the log has records the next
\* undo will pop
LoadsBypassUndoWitness ==
    /\ loadCount > 0
    /\ billLoads > 0
    /\ Len(undoStack.nodes) >= 2
    /\ \E i \in 1..Len(transactionList) : transactionList[i].id = LoadId(1)
    /\ \E i \in 1..Len(billQueue.nodes) : billQueue.nodes[i].id = LoadBillId(1)

\* C15: deleteTransaction, payBill and removeBill with an id that is not
\* present return false and change nothing, the undo log included.
AbsentIdIsNoOp ==
    \A id \in TxnIds \cup BillIds :
        /\ (id \notin Ids(getAllTransactions(Eng)))
               => deleteTransaction(Eng, id) = [e |-> Eng, ret |-> FALSE]
        /\ (id \notin Ids(getAllBills(Eng)))
               => /\ payBill(Eng, id) = [e |-> Eng, ret |-> FALSE]
                  /\ removeBill(Eng, id) = [e |-> Eng, ret |-> FALSE]

\* a bill was removed and its id is asked for again while the schedule, the
\* Ledger and the log hold other things
AbsentIdIsNoOpWitness ==
    /\ billQueue.nodes # <<>>
    /\ transactionList # <<>>
    /\ undoStack.nodes # <<>>
    /\ Head(undoStack.nodes).type = "DELETE_BILL"
    /\ RecordId(Head(undoStack.nodes)) \notin Ids(getAllBills(Eng))
    /\ ~payBill(Eng, RecordId(Head(undoStack.nodes))).ret

\* the expenses of the Ledger
LedgerExpenses == {t \in SeqToSet(getAllTransactions(Eng)) : t.type = Expense}

AmountsDescending(txs) ==
    \A i, j \in 1..Len(txs) : i < j => txs[i].amount >= txs[j].amount

\* C16: with n expenses in the Ledger, getTopExpenses(k) is empty for
\* k <= 0 and otherwise min(k, n) distinct Ledger expenses, amounts
\* non-increasing, each at least as large as any expense left out; no income
\* is returned.
TopExpensesCorrect ==
    \A k \in TopKs :
        LET r == getTopExpenses(Eng, k).ret
            n == Cardinality(LedgerExpenses)
        IN /\ (k <= 0) => r = <<>>
           /\ (k > 0) =>
                 /\ Len(r) = (IF k < n THEN k ELSE n)
                 /\ Cardinality(Ids(r)) = Len(r)
                 /\ SeqToSet(r) \subseteq LedgerExpenses
                 /\ AmountsDescending(r)
                 /\ \A t \in LedgerExpenses \ SeqToSet(r) :
                        \A i \in 1..Len(r) : r[i].amount >= t.amount

\* three expenses whose largest is the last of the list: the top one is the
\* largest, the top two leave the smallest out
TopExpensesWitness ==
    /\ Cardinality(LedgerExpenses) = MaxTopLoads
    /\ Len(transactionList) = MaxTopLoads
    /\ \A i \in 1..(Len(transactionList) - 1) :
           transactionList[i].amount < transactionList[Len(transactionList)].amount
    /\ Len(getTopExpenses(Eng, 2).ret) = 2
    /\ getTopExpenses(Eng, 1).ret[1] = transactionList[Len(transactionList)]

\* C17: an expense that left the Ledger (deleteTransaction, undo of its
\* add, clearAll) is never returned by a later getTopExpenses(k), although
\* the heap of the adds still holds it.
RemovedExpensesNeverRanked ==
    \A k \in TopKs :
        /\ \A i \in 1..Len(expenseHeap) :
               (expenseHeap[i].id \notin Ids(getAllTransactions(Eng)))
                   => expenseHeap[i].id \notin Ids(getTopExpenses(Eng, k).ret)
        /\ \A id \in Ids(getAllTransactions(Eng)) :
               id \notin Ids(getTopExpenses(deleteTransaction(Eng, id).e, k).ret)
        /\ getTopExpenses(clearAll(Eng), k).ret = <<>>

\* the heap of the adds holds an expense the Ledger no longer has, and the
\* Ledger has another expense to rank
RemovedExpensesWitness ==
    /\ \E i \in 1..Len(expenseHeap) :
           expenseHeap[i].id \notin Ids(getAllTransactions(Eng))
    /\ getTopExpenses(Eng, 1).ret # <<>>

\* what the ranking calls must leave alone
Ranked(e) ==
    [ledger |-> e.transactionList, dateIndex |-> e.transactionBST,
     totals |-> e.expenseMap, budgets |-> e.budgetMap, log |-> e.undoStack]

Amounts(txs) == [i \in 1..Len(txs) |-> txs[i].amount]

TotalAmounts(cs) == [i \in 1..Len(cs) |-> cs[i].totalAmount]

\* C18: getTopExpenses(k) and getTopCategories(k) leave the Ledger, the
\* DateIndex, the category totals, the budgets and the undo log unchanged,
\* and a second call right after the first returns the same amounts in the
\* same order.
TopQueriesRepeatable ==
    \A k \in TopKs :
        LET a == getTopExpenses(Eng, k)
            c == getTopCategories(Eng, k)
        IN /\ Ranked(a.e) = Ranked(Eng)
           /\ Ranked(c.e) = Ranked(Eng)
           /\ Amounts(getTopExpenses(a.e, k).ret) = Amounts(a.ret)
           /\ TotalAmounts(getTopCategories(c.e, k).ret) = TotalAmounts(c.ret)

\* both heaps are out of date, so each call changes the engine, and there
\* is more to rank than one call of k = 1 returns
TopQueriesWitness ==
    /\ getTopExpenses(Eng, 1).e # Eng
    /\ getTopCategories(Eng, 1).e # Eng
    /\ Cardinality(LedgerExpenses) >= 2
    /\ Len(getTopCategories(Eng, 2).ret) = 2
    /\ Amounts(getTopExpenses(Eng, 2).ret)[1] # Amounts(getTopExpenses(Eng, 2).ret)[2]

\* the place of a bill in the history of the schedule
BillPos(id) == CHOOSE i \in 1..Len(billOrder) : billOrder[i].id = id

\* C19: getOverdueBills(asOf) returns exactly the unpaid bills of the
\* schedule due strictly before asOf, in arrival order; a bill due on asOf
\* is not returned, nor is a bill once payBill has succeeded for it.
OverdueBillsCorrect ==
    \A asOf \in QueryDates :
        LET r == getOverdueBills(Eng, asOf)
        IN /\ SeqToSet(r) =
                 {b \in SeqToSet(getAllBills(Eng)) :
                      ~b.isPaid /\ StrLess(b.dueDate, asOf)}
           /\ Cardinality(Ids(r)) = Len(r)
           /\ \A i, j \in 1..Len(r) : i < j => BillPos(r[i].id) < BillPos(r[j].id)
           /\ \A i \in 1..Len(r) : r[i].dueDate # asOf
           /\ \A id \in Ids(getAllBills(Eng)) :
                  /\ payBill(Eng, id).ret
                  /\ id \notin Ids(getOverdueBills(payBill(Eng, id).e, asOf))

\* for some date the schedule has an unpaid bill due that day, an unpaid
\* bill due earlier and a paid bill due earlier
OverdueBillsWitness ==
    \E asOf \in Dates :
        /\ \E i \in 1..Len(billQueue.nodes) :
               ~billQueue.nodes[i].isPaid /\ billQueue.nodes[i].dueDate = asOf
        /\ \E i \in 1..Len(billQueue.nodes) :
               billQueue.nodes[i].isPaid /\ StrLess(billQueue.nodes[i].dueDate, asOf)
        /\ Len(getOverdueBills(Eng, asOf)) = 1

\* a bill as it was enqueued
AsEnqueued(b) == [b EXCEPT !.isPaid = FALSE]

\* C20: after any addBill, loadBill, payBill and removeBill, getAllBills()
\* is the bills added and not removed, in enqueue order whatever their due
\* dates; getBillCount() is its length; getNextBill is the earliest one; a
\* bill enqueued after a removal (of the last bill too) goes to the end.
BillsFifo ==
    /\ Len(getAllBills(Eng)) = Len(billOrder)
    /\ \A i \in 1..Len(billOrder) : AsEnqueued(getAllBills(Eng)[i]) = billOrder[i]
    /\ getBillCount(Eng) = Len(billOrder)
    /\ getNextBill(Eng).ok <=> (billOrder # <<>>)
    /\ (billOrder # <<>>) => AsEnqueued(getNextBill(Eng).b) = billOrder[1]
    /\ \A id \in Ids(getAllBills(Eng)), inp \in BillInputs :
           LET r == removeBill(Eng, id)
               a == addBill(r.e, inp)
           IN /\ r.ret
              /\ getAllBills(a.e) = getAllBills(r.e) \o <<a.ret>>
              /\ getBillCount(a.e) = Len(getAllBills(r.e)) + 1

\* three bills were enqueued, one of them was removed and one enqueued
\* after that; the earlier-due bill stands behind the later-due one
BillsFifoWitness ==
    /\ billCounter = MaxBills
    /\ billLoads = MaxBillLoads
    /\ Len(billQueue.nodes) = 2
    /\ Len(undoStack.nodes) >= 2
    /\ undoStack.nodes[1].type = "ADD_BILL"
    /\ undoStack.nodes[2].type = "DELETE_BILL"
    /\ StrLess(billQueue.nodes[2].dueDate, billQueue.nodes[1].dueDate)

\* the level the thresholds 50, 80 and 100 give, in whole-number arithmetic
ExpectedLevel(spent, limit) ==
    IF limit = 0 \/ spent * 100 < 50 * limit THEN "normal"
    ELSE IF spent * 100 < 80 * limit THEN "caution"
    ELSE IF spent * 100 < 100 * limit THEN "warning"
    ELSE "exceeded"

\* C21: a Budget with whole spent >= 0 and limit >= 0 is 'normal' when
\* limit = 0 or spent*100 < 50*limit, 'caution' from 50*limit up to 80*limit,
\* 'warning' from 80*limit up to 100*limit and 'exceeded' when
\* spent >= limit > 0; getBudgetAlerts() returns exactly the budgets whose
\* level is not 'normal', each with its level.
AlertLevelsCorrect ==
    /\ \A spent \in 0..MaxAlertAmount, limit \in 0..MaxAlertAmount :
           getAlertLevel(Budget(CatFood, limit, spent)) = ExpectedLevel(spent, limit)
    /\ \A c \in DOMAIN budgetMap :
           getAlertLevel(budgetMap[c]) =
               ExpectedLevel(budgetMap[c].spent, budgetMap[c].limit)
    /\ {a.category : a \in SeqToSet(getBudgetAlerts(Eng))} =
           {c \in DOMAIN budgetMap :
               ExpectedLevel(budgetMap[c].spent, budgetMap[c].limit) # "normal"}
    /\ Len(getBudgetAlerts(Eng)) =
           Cardinality({a.category : a \in SeqToSet(getBudgetAlerts(Eng))})
    /\ \A a \in SeqToSet(getBudgetAlerts(Eng)) :
           /\ a.level = ExpectedLevel(a.spent, a.limit)
           /\ a.spent = budgetMap[a.category].spent
           /\ a.limit = budgetMap[a.category].limit

\* two budgets, one exactly at half of its limit and one below: one alert
AlertLevelsWitness ==
    /\ Cardinality(DOMAIN budgetMap) = 2
    /\ Len(getBudgetAlerts(Eng)) = 1
    /\ getBudgetAlerts(Eng)[1].level = "caution"
    /\ getBudgetAlerts(Eng)[1].spent * 2 = getBudgetAlerts(Eng)[1].limit

\* C22: after insert(w), for every prefix p whose lower-cased form is a
\* prefix of the lower-cased w and every maxResults at least the number of
\* stored words, getWordsWithPrefix(p) contains the string stored for w (the
\* one its first insert gave, in its own casing), whatever the case of p;
\* every returned word has p as a case-insensitive prefix, and at most
\* maxResults words are returned.
PrefixLookupCorrect ==
    /\ \A p \in TriePrefixes, n \in 0..MaxResultsAsked :
         \A r \in getWordsWithPrefix(payeeTrie, p, n) :
           /\ Len(r) <= n
           /\ \A i \in 1..Len(r) : IsPrefixOf(toLower(p), toLower(r[i]))
    /\ \A w \in TrieWords \ {<<>>}, p \in TriePrefixes :
         LET after == TrieInsert(payeeTrie, w)
             stored == IF toLower(w) \in DOMAIN payeeTrie
                       THEN payeeTrie[toLower(w)] ELSE w
         IN IsPrefixOf(toLower(p), toLower(w)) =>
              \A r \in getWordsWithPrefix(after, p, MaxResultsAsked) :
                  /\ stored \in SeqToSet(r)
                  /\ SeqToSet(r) =
                         {x \in AllWordsOf(after) : IsPrefixOf(toLower(p), toLower(x))}
    /\ \A r \in getAllWords(payeeTrie) : SeqToSet(r) = AllWordsOf(payeeTrie)

\* "Ab" is stored under "ab" next to two more words, and the upper-case
\* prefix "A" finds it
PrefixLookupWitness ==
    /\ <<97, 98>> \in DOMAIN payeeTrie
    /\ payeeTrie[<<97, 98>>] = <<65, 98>>
    /\ Cardinality(DOMAIN payeeTrie) >= 3
    /\ \E r \in getWordsWithPrefix(payeeTrie, <<65>>, MaxResultsAsked) :
           <<65, 98>> \in SeqToSet(r)

\* the word a trie holds for w: the one first inserted under w's lower case
StoredFor(trie, w) == trie[toLower(w)]

\* the words a call hands to the two tries reach them: a non-empty word is
\* held afterwards, in the casing of its first insert
WordsReachTries(before, after, category, description) ==
    /\ category # <<>> =>
          /\ toLower(category) \in DOMAIN after.categoryTrie
          /\ StoredFor(after.categoryTrie, category) =
                 (IF toLower(category) \in DOMAIN before.categoryTrie
                  THEN StoredFor(before.categoryTrie, category) ELSE category)
          /\ StoredFor(after.categoryTrie, category) \in getAllCategories(after)
    /\ category = <<>> => after.categoryTrie = before.categoryTrie
    /\ description # <<>> =>
          /\ toLower(description) \in DOMAIN after.payeeTrie
          /\ StoredFor(after.payeeTrie, description) =
                 (IF toLower(description) \in DOMAIN before.payeeTrie
                  THEN StoredFor(before.payeeTrie, description) ELSE description)
          /\ \A r \in getPayeeSuggestions(after, description) :
                 StoredFor(after.payeeTrie, description) \in SeqToSet(r)

\* no step takes a word out of either trie: what getAllCategories and the
\* suggestions for a word returned before the step, they return after it
WordsStay ==
    /\ getAllCategories(Eng) \subseteq AllWordsOf(categoryTrie')
    /\ AllWordsOf(payeeTrie) \subseteq AllWordsOf(payeeTrie')
    /\ \A w \in getAllCategories(Eng) :
           \A r \in getWordsWithPrefix(categoryTrie', w, DefaultMaxResults) :
               w \in SeqToSet(r)
    /\ \A w \in AllWordsOf(payeeTrie) :
           \A r \in getWordsWithPrefix(payeeTrie', w, DefaultMaxResults) :
               w \in SeqToSet(r)

UndoDeleteRestoresAtFront ==
    \A id \in Ids(getAllTransactions(Eng)) :
        LET d == deleteTransaction(Eng, id)
            u == undo(d.e)
        IN /\ d.ret
           /\ u.ret
           /\ Len(getAllTransactions(u.e)) = Len(getAllTransactions(Eng))
           /\ getAllTransactions(u.e)[1].id = id
           /\ Tail(getAllTransactions(u.e)) = getAllTransactions(d.e)

\* the loaded transaction, which went to the tail, stands before the added
\* one: it was deleted and the delete undone
UndoDeleteAtFrontWitness ==
    /\ Len(transactionList) = 2
    /\ transactionList[1].id = LoadId(1)
    /\ transactionList[2].id = GenId(1)

\* C24 as stated: after deleteTransaction(id) followed by undo(), the
\* restored transaction is the last element of getAllTransactions().
UndoDeleteRestoresAtBack ==
    \A id \in Ids(getAllTransactions(Eng)) :
        LET u == undo(deleteTransaction(Eng, id).e)
        IN getAllTransactions(u.e)[Len(getAllTransactions(u.e))].id = id

\* C25: undo() of an UpdateBudget record (a setBudget on a category that
\* already had a Budget) restores the Budget's limit to the value it had
\* before that setBudget and leaves its spent, every other Budget, the
\* Ledger, the DateIndex and the category expense totals unchanged.
UndoUpdateBudgetRestoresLimit ==
    \A b \in BudgetInputs :
        MapHas(budgetMap, b.category) =>
            LET s == setBudget(Eng, b.category, b.limit)
                u == undo(s)
            IN /\ s.undoStack.nodes[1].type = "UPDATE_BUDGET"
               /\ u.ret
               /\ u.e.budgetMap = budgetMap
               /\ u.e.transactionList = transactionList
               /\ u.e.transactionBST = transactionBST
               /\ u.e.expenseMap = expenseMap

\* the categories a caller sets a first budget for: the two in use and one
\* whose name holds the payload's delimiter, "a|b"
NewBudgetCategories == Categories \cup {<<97, Bar, 98>>}

\* C26: undo() of an AddBudget record (a setBudget on a category with no
\* Budget) removes the Budget of that category: afterwards
\* getBudget(category) reports not found and getBudgetCount() is one less,
\* while the category's expense total and every other Budget are unchanged;
\* a category has at most one Budget at any time.
UndoAddBudgetRemoves ==
    \A c \in NewBudgetCategories :
        ~getBudget(Eng, c).found =>
            LET s == setBudget(Eng, c, 100)
                u == undo(s)
            IN /\ s.undoStack.nodes[1].type = "ADD_BUDGET"
               /\ getBudget(s, c).found
               /\ getBudgetCount(s) = getBudgetCount(Eng) + 1
               /\ u.ret
               /\ ~getBudget(u.e, c).found
               /\ getBudgetCount(u.e) = getBudgetCount(s) - 1
               /\ u.e.expenseMap = expenseMap
               /\ \A other \in DOMAIN budgetMap :
                      getBudget(u.e, other) = getBudget(Eng, other)

BillRecordTypes == {"ADD_BILL", "DELETE_BILL", "PAY_BILL"}

\* the call put one record of the type on top of the log, above the
\* records that were there (less the oldest when the log was full)
PushedOneRecord(before, after, type) ==
    /\ after.undoStack.nodes # <<>>
    /\ after.undoStack.nodes[1].type = type
    /\ Tail(after.undoStack.nodes) =
           (IF before.undoStack.count >= before.undoStack.maxSize
            THEN SubSeq(before.undoStack.nodes, 1, Len(before.undoStack.nodes) - 1)
            ELSE before.undoStack.nodes)
    /\ [after EXCEPT !.undoStack = before.undoStack,
                     !.billQueue = before.billQueue,
                     !.billCounter = before.billCounter] = before

\* C27: every successful addBill, removeBill and payBill pushes exactly one
\* record onto the undo log, and undo() with an AddBill, DeleteBill or
\* PayBill record on top removes that record and leaves the bill schedule
\* (the bills, their order and their isPaid flags), the Ledger, the
\* DateIndex, the category totals and the budgets unchanged.
BillRecordsNotReversed ==
    /\ \A inp \in BillInputs :
           PushedOneRecord(Eng, addBill(Eng, inp).e, "ADD_BILL")
    /\ \A id \in BillIds :
           /\ removeBill(Eng, id).ret =>
                  PushedOneRecord(Eng, removeBill(Eng, id).e, "DELETE_BILL")
           /\ payBill(Eng, id).ret =>
                  PushedOneRecord(Eng, payBill(Eng, id).e, "PAY_BILL")
    /\ (undoStack.nodes # <<>> /\ undoStack.nodes[1].type \in BillRecordTypes) =>
           /\ undo(Eng).ret
           /\ undo(Eng).e.undoStack.nodes = Tail(undoStack.nodes)
           /\ undo(Eng).e.undoStack.count = undoStack.count - 1
           /\ [undo(Eng).e EXCEPT !.undoStack = undoStack] = Eng
    /\ \A inp \in BillInputs :
           LET a == addBill(Eng, inp).e
               p == payBill(a, addBill(Eng, inp).ret.id).e
               r == removeBill(p, addBill(Eng, inp).ret.id).e
           IN /\ getAllBills(undo(a).e) = getAllBills(a)
              /\ getAllBills(undo(p).e) = getAllBills(p)
              /\ getAllBills(undo(r).e) = getAllBills(r)

\* the bill that addBill created is still scheduled, and paid, with an
\* empty undo log: its AddBill and PayBill records were both undone
BillRecordsWitness ==
    /\ undoStack.nodes = <<>>
    /\ \E i \in 1..Len(getAllBills(Eng)) :
           /\ getAllBills(Eng)[i].id = GenBillId(1)
           /\ getAllBills(Eng)[i].isPaid

\* a step that lengthens the recent view is an addTransaction or a
\* loadTransaction, and a step that changes it at all is one of those or
\* empties it (clearAll)
RecentViewStep ==
    /\ Len(recentStack'.nodes) > Len(recentStack.nodes) =>
           \/ txnCounter' = txnCounter + 1
           \/ loadCount' = loadCount + 1
    /\ recentStack' # recentStack =>
           \/ txnCounter' = txnCounter + 1
           \/ loadCount' = loadCount + 1
           \/ recentStack'.nodes = <<>>

\* C28: deleteTransaction and undo never change the RecentView: only
\* addTransaction and loadTransaction add entries, and a transaction that
\* was deleted (or whose add was undone) is still returned by
\* getRecentTransactions until later pushes age it out of the cap or
\* clearAll is called.
RecentViewKeepsDeleted ==
    /\ [](/\ undo(Eng).e.recentStack = recentStack
          /\ \A id \in TxnIds :
                 /\ deleteTransaction(Eng, id).e.recentStack = recentStack
                 /\ id \in Ids(getRecentTransactions(Eng, RecentMaxSize)) =>
                        id \in Ids(getRecentTransactions(deleteTransaction(Eng, id).e,
                                                         RecentMaxSize))
          /\ \A inp \in TxnInputs :
                 LET a == addTransaction(Eng, inp)
                 IN /\ getRecentTransactions(a.e, 1) = <<a.ret>>
                    /\ getRecentTransactions(undo(a.e).e, 1) = <<a.ret>>
                    /\ a.ret.id \notin Ids(getAllTransactions(undo(a.e).e)))
    /\ [][RecentViewStep]_vars

\* the recent view still shows the added transaction after its add was
\* undone: the ledger and the undo log are empty
RecentViewWitness ==
    /\ transactionList = <<>>
    /\ undoStack.nodes = <<>>
    /\ Len(recentStack.nodes) = 1
    /\ recentStack.nodes[1].id = GenId(1)

\* the first n elements of a sequence, all of it when it is shorter
FirstN(seq, n) ==
    IF n <= 0 THEN <<>> ELSE SubSeq(seq, 1, IF n < Len(seq) THEN n ELSE Len(seq))

\* C29: for every cap maxSize >= 1 and every sequence of pushes, the
\* RecentView holds at most maxSize entries, they are exactly the most
\* recently pushed ones in most-recent-first order, size() equals the number
\* of entries held, and getRecentTransactions(n) returns the first
\* min(n, size) of them (empty for n <= 0).
RecentViewBounded ==
    /\ Len(recentStack.nodes) <= recentStack.maxSize
    /\ recentStack.count = Len(recentStack.nodes)
    /\ \A i \in 1..Len(recentStack.nodes) :
           recentStack.nodes[i].id = LoadId(loadCount - i + 1)
    /\ \A n \in (0 - 1)..(MaxCap + 1) :
           /\ getRecentTransactions(Eng, n) = FirstN(recentStack.nodes, n)
           /\ n <= 0 => getRecentTransactions(Eng, n) = <<>>
           /\ n > 0 => Len(getRecentTransactions(Eng, n)) =
                           (IF n < recentStack.count THEN n ELSE recentStack.count)
    /\ \A inp \in RecentInputs :
           LET t == Txn(LoadId(loadCount + 1), inp.type, inp.amount, inp.category,
                        inp.description, inp.date)
               p == TransactionStackPush(recentStack, t)
           IN /\ p.nodes = FirstN(<<t>> \o recentStack.nodes, recentStack.maxSize)
              /\ p.count = Len(p.nodes)

\* a view with a cap of two holds the two latest of at least four pushes
RecentViewBoundedWitness ==
    /\ recentStack.maxSize = 2
    /\ loadCount >= 4
    /\ Len(recentStack.nodes) = 2
    /\ recentStack.nodes[1].id = LoadId(loadCount)
    /\ recentStack.nodes[2].id = LoadId(loadCount - 1)

\* the members behind each structure of the fan-out
Ledger == {"transactionList"}
DateIndex == {"transactionBST"}
RecentView == {"recentStack"}
CategoryIndex == {"expenseMap", "budgetMap"}
AutocompleteIndex == {"categoryTrie", "payeeTrie"}
UndoLog == {"undoStack"}

\* the statements of a call that write one of the members
WritesTo(steps, members) ==
    {i \in 2..Len(steps) : \E m \in members : steps[i][m] # steps[i - 1][m]}

\* every write to the first structure comes before every write to the second
Before(steps, first, second) ==
    \A i \in WritesTo(steps, first), j \in WritesTo(steps, second) : i < j

\* the structures are written in the order given
InFanOutOrder(steps, structures) ==
    \A a, b \in 1..Len(structures) :
        a < b => Before(steps, structures[a], structures[b])

\* the transactions a caller adds: those of the runs, and those that bring
\* new words to the tries
OrderInputs == TxnInputs \cup WordInputs

\* C30 (as amended): addTransaction updates the structures in the fixed
\* order Ledger, DateIndex, RecentView, CategoryIndex, AutocompleteIndex,
\* UndoLog; deleteTransaction writes its undo record first and then updates
\* the Ledger, the DateIndex and the CategoryIndex in that order, leaving the
\* RecentView and the AutocompleteIndex as they were.
FanOutOrder ==
    /\ \A inp \in OrderInputs :
           LET s == addTransactionSteps(Eng, inp)
           IN /\ s[Len(s)] = addTransaction(Eng, inp).e
              /\ InFanOutOrder(s, <<Ledger, DateIndex, RecentView, CategoryIndex,
                                    AutocompleteIndex, UndoLog>>)
              /\ WritesTo(s, Ledger) # {}
              /\ WritesTo(s, UndoLog) # {}
    /\ \A id \in Ids(getAllTransactions(Eng)) :
           LET s == deleteTransactionSteps(Eng, id)
           IN /\ s[Len(s)] = deleteTransaction(Eng, id).e
              /\ InFanOutOrder(s, <<UndoLog, Ledger, DateIndex, CategoryIndex>>)
              /\ WritesTo(s, UndoLog) # {}
              /\ WritesTo(s, Ledger) # {}
              /\ WritesTo(s, DateIndex) # {}
              /\ WritesTo(s, RecentView \cup AutocompleteIndex) = {}

\* an expense with a budget on its category is in the ledger, so that a
\* delete writes the log, the list, the tree and both maps
FanOutOrderWitness ==
    /\ \E i \in 1..Len(transactionList) :
           /\ transactionList[i].type = Expense
           /\ MapHas(budgetMap, transactionList[i].category)
           /\ WritesTo(deleteTransactionSteps(Eng, transactionList[i].id),
                       CategoryIndex) # {}
    /\ undoStack.nodes # <<>>
    /\ undoStack.nodes[1].type = "DELETE_TRANSACTION"

\* C30 as stated: addTransaction and deleteTransaction both update the
\* structures in the order Ledger, DateIndex, RecentView, CategoryIndex,
\* AutocompleteIndex, UndoLog: the Ledger is written first and the undo
\* record only after the Ledger and the indexes.
FanOutOrderBothCalls ==
    /\ \A inp \in OrderInputs :
           InFanOutOrder(addTransactionSteps(Eng, inp),
                         <<Ledger, DateIndex, RecentView, CategoryIndex,
                           AutocompleteIndex, UndoLog>>)
    /\ \A id \in Ids(getAllTransactions(Eng)) :
           InFanOutOrder(deleteTransactionSteps(Eng, id),
                         <<Ledger, DateIndex, RecentView, CategoryIndex,
                           AutocompleteIndex, UndoLog>>)

\* the Ledger's transactions whose date starts with the month string
InMonth(e, ym) == SelectSeq(getAllTransactions(e), LAMBDA t : IsPrefixOf(ym, t.date))

RECURSIVE SumOfMap(_, _)
SumOfMap(m, keys) ==
    IF keys = {} THEN 0
    ELSE LET k == CHOOSE k \in keys : TRUE
         IN m[k] + SumOfMap(m, keys \ {k})

\* C31: for every month "YYYY-MM" and dates "YYYY-MM-DD" with DD from 01 to
\* 31, getMonthlySummary reports as transactionCount the number of Ledger
\* transactions whose date starts with the month, as totalIncome and
\* totalExpenses the sums of their income and expense amounts, netSavings =
\* totalIncome - totalExpenses, and a breakdown with one entry per expense
\* category of the month, each that category's sum, together summing to
\* totalExpenses; no transaction of another month or year is counted.
MonthlySummaryCorrect ==
    \A ym \in Months :
        LET s == getMonthlySummary(Eng, ym)
            inMonth == InMonth(Eng, ym)
        IN /\ SeqToSet(getByMonth(transactionBST, ym)) = SeqToSet(inMonth)
           /\ s.transactionCount = Len(inMonth)
           /\ s.totalIncome = SumOfKind(inMonth, Income)
           /\ s.totalExpenses = SumOfKind(inMonth, Expense)
           /\ s.netSavings = s.totalIncome - s.totalExpenses
           /\ DOMAIN s.categoryBreakdown =
                  {t.category : t \in {x \in SeqToSet(inMonth) : x.type = Expense}}
           /\ \A c \in DOMAIN s.categoryBreakdown :
                  s.categoryBreakdown[c] = ExpenseSumIn(inMonth, c)
           /\ SumOfMap(s.categoryBreakdown, DOMAIN s.categoryBreakdown) = s.totalExpenses

\* January 2024 holds an expense on its last day and an income, beside an
\* expense of January 2023: two are counted, and the net is 970
MonthlySummaryWitness ==
    /\ Len(transactionList) = 3
    /\ \E i \in 1..3 : transactionList[i].date = Date230115
    /\ \E i \in 1..3 : transactionList[i].date = Date0131
    /\ getMonthlySummary(Eng, <<50, 48, 50, 52, 45, 48, 49>>).transactionCount = 2
    /\ getMonthlySummary(Eng, <<50, 48, 50, 52, 45, 48, 49>>).netSavings = 970
    /\ DOMAIN getMonthlySummary(Eng, <<50, 48, 50, 52, 45, 48, 49>>).categoryBreakdown
           = {CatRent}

\* what the caller sees right after clearAll
ClearAllEmpties ==
    LET c == clearAll(Eng)
    IN /\ getAllTransactions(c) = <<>>
       /\ getTransactionsByDateAsc(c) = <<>>
       /\ \A n \in (0 - 1)..3 : getRecentTransactions(c, n) = <<>>
       /\ \A k \in TopKs : getTopExpenses(c, k).ret = <<>>
       /\ getAllBills(c) = <<>>
       /\ getTransactionCount(c) = 0
       /\ getBillCount(c) = 0
       /\ getTotalBalance(c) = 0
       /\ ~canUndo(c)

\* the first calls after clearAll are taken, and what holds of an engine's
\* data holds of the new data: the views show the new transaction alone, the
\* balance is its signed amount, and every Budget's spent and every category
\* total is the sum of the category's expenses in the Ledger
ClearAllAcceptsNewData ==
    LET c == clearAll(Eng)
    IN /\ \A inp \in TxnInputs :
              LET a == addTransaction(c, inp)
              IN /\ getAllTransactions(a.e) = <<a.ret>>
                 /\ getTransactionsByDateAsc(a.e) = <<a.ret>>
                 /\ getRecentTransactions(a.e, RecentMaxSize) = <<a.ret>>
                 /\ getTransactionCount(a.e) = 1
                 /\ getTotalBalance(a.e) =
                        (IF inp.type = Income THEN inp.amount ELSE 0 - inp.amount)
                 /\ canUndo(a.e)
                 /\ \A cat \in DOMAIN a.e.budgetMap :
                        a.e.budgetMap[cat].spent = ExpenseSumIn(a.e.transactionList, cat)
                 /\ \A cat \in DOMAIN a.e.expenseMap :
                        a.e.expenseMap[cat] = ExpenseSumIn(a.e.transactionList, cat)
       /\ \A inp \in BillInputs :
              LET b == addBill(c, inp)
              IN /\ getAllBills(b.e) = <<b.ret>>
                 /\ getBillCount(b.e) = 1
                 /\ canUndo(b.e)

\* C32: after clearAll() in any state, getAllTransactions(),
\* getTransactionsByDateAsc(), getRecentTransactions(n), getTopExpenses(k)
\* and getAllBills() are empty, getTransactionCount() and getBillCount() are
\* 0, getTotalBalance() is 0 and canUndo() is false; the engine then accepts
\* new addTransaction and addBill calls and the invariants of the data hold
\* again for the new data.
ClearAllResets == ClearAllEmpties /\ ClearAllAcceptsNewData

\* C33: after every mutating call (clearAll and undo included), the expense
\* total of every category, with or without a Budget, is the sum of the
\* amounts of the category's expenses in the Ledger and is never negative;
\* so getTopCategories(k) returns at most k categories, totals
\* non-increasing, each with the total of its Ledger expenses, and nothing
\* when the Ledger holds no expense.
CategoryTotalsMirrorLedger ==
    /\ \A c \in Categories \cup DOMAIN expenseMap :
           /\ MapSearch(expenseMap, c, 0) = ExpenseSumIn(transactionList, c)
           /\ MapSearch(expenseMap, c, 0) >= 0
    /\ \A k \in TopKs :
           LET r == getTopCategories(Eng, k).ret
           IN /\ Len(r) <= (IF k > 0 THEN k ELSE 0)
              /\ \A i, j \in 1..Len(r) : i < j => r[i].totalAmount >= r[j].totalAmount
              /\ \A i \in 1..Len(r) :
                     r[i].totalAmount = ExpenseSumIn(transactionList, r[i].category)
              /\ (filterByType(transactionList, Expense) = <<>>) => r = <<>>

\* the list without the transactions that carry the id
WithoutId(list, id) == SelectSeq(list, LAMBDA t : t.id # id)

UndoShrinksLogByOne ==
    undo(Eng).ret =>
        /\ undo(Eng).e.undoStack.nodes = Tail(undoStack.nodes)
        /\ undo(Eng).e.undoStack.count = undoStack.count - 1
        /\ Head(undoStack.nodes).type = "ADD_TRANSACTION" =>
               LET p == UndoPop(undoStack)
                   d == deleteTransaction([Eng EXCEPT !.undoStack = p.st],
                                          RecordId(p.a))
               IN /\ RecordId(p.a) \in Ids(getAllTransactions(Eng))
                  /\ d.ret
                  /\ Head(d.e.undoStack.nodes).type = "DELETE_TRANSACTION"
                  /\ RecordId(Head(d.e.undoStack.nodes)) = RecordId(p.a)
                  /\ Tail(d.e.undoStack.nodes) = Tail(undoStack.nodes)
                  /\ UndoPop(d.e.undoStack).st = undo(Eng).e.undoStack

\* the log is full with an AddTransaction record on top of two older
\* records, and the added transaction is in the Ledger
UndoShrinksLogWitness ==
    /\ undoStack.count = undoStack.maxSize
    /\ Len(undoStack.nodes) = UndoMaxSize
    /\ Head(undoStack.nodes).type = "ADD_TRANSACTION"
    /\ undoStack.nodes[2].type # "ADD_TRANSACTION"
    /\ RecordId(Head(undoStack.nodes)) \in Ids(getAllTransactions(Eng))
    /\ undo(Eng).ret

\* the sequence number an id ends with: the digits after its last '_'
RECURSIVE SequenceOf(_)
SequenceOf(id) ==
    IF id = <<>> \/ ~IsDigit(id[Len(id)]) THEN <<>>
    ELSE Append(SequenceOf(SubSeq(id, 1, Len(id) - 1)), id[Len(id)])

\* a step never takes a counter back, and an id that comes into the Ledger
\* or the schedule with a step that moved the counter carries the new count
\* and was in neither the Ledger, the recent view nor the log before
CountersOnlyGrow ==
    /\ txnCounter' \in {txnCounter, txnCounter + 1}
    /\ billCounter' \in {billCounter, billCounter + 1}
    /\ txnCounter' = txnCounter + 1 =>
           /\ transactionList' # <<>>
           /\ Head(transactionList').id = GenId(txnCounter')
           /\ DigitsValue(SequenceOf(Head(transactionList').id)) = txnCounter'
           /\ GenId(txnCounter') \notin
                  Ids(transactionList) \cup Ids(recentStack.nodes) \cup UndoLogTxnIds
    /\ billCounter' = billCounter + 1 =>
           /\ billQueue'.nodes # <<>>
           /\ billQueue'.nodes[Len(billQueue'.nodes)].id = GenBillId(billCounter')
           /\ GenBillId(billCounter') \notin Ids(billQueue.nodes)

\* C36: all ids returned by addTransaction over a run are pairwise
\* distinct, and so are all ids returned by addBill: the sequence counter in
\* the id goes up by one with every call and is never reset or reused, also
\* after deleteTransaction, removeBill, undo and clearAll, so no two
\* transactions created by addTransaction share an id in the Ledger.
IdsStayUnique ==
    /\ [](/\ Cardinality(Ids(transactionList)) = Len(transactionList)
          /\ Cardinality(Ids(billQueue.nodes)) = Len(billQueue.nodes)
          /\ \A n \in 1..txnCounter :
                 addTransaction(Eng, IdTxnInput).ret.id # GenId(n)
          /\ \A n \in 1..billCounter :
                 addBill(Eng, IdBillInput).ret.id # GenBillId(n)
          /\ addTransaction(Eng, IdTxnInput).e.txnCounter = txnCounter + 1
          /\ addBill(Eng, IdBillInput).e.billCounter = billCounter + 1
          /\ clearAll(Eng).txnCounter = txnCounter
          /\ clearAll(Eng).billCounter = billCounter
          /\ undo(Eng).e.txnCounter = txnCounter
          /\ undo(Eng).e.billCounter = billCounter
          /\ \A n \in 1..MaxIdAdds :
                 deleteTransaction(Eng, GenId(n)).e.txnCounter = txnCounter
          /\ \A id \in BillIds : removeBill(Eng, id).e.billCounter = billCounter)
    /\ [][CountersOnlyGrow]_vars

\* three transactions and two bills were created; the Ledger holds the
\* first and the third, the schedule the second bill only, and the log was
\* emptied on the way
IdsStayUniqueWitness ==
    /\ txnCounter = MaxIdAdds
    /\ billCounter = MaxBills
    /\ Ids(transactionList) = {GenId(1), GenId(MaxIdAdds)}
    /\ Ids(billQueue.nodes) = {GenBillId(MaxBills)}
    /\ undoStack.nodes = <<>>

DatesDescending(txs) ==
    \A i, j \in 1..Len(txs) : i < j => StrLeq(txs[j].date, txs[i].date)

\* two transactions of the sequence carry the same date
SharesADate(txs) ==
    \E i, j \in 1..Len(txs) : i # j /\ txs[i].date = txs[j].date

\* C37: getTransactionsByDateDesc() returns the same transactions as
\* getTransactionsByDateAsc() with dates in non-increasing order;
\* transactions sharing a date keep their insertion order within the date in
\* both results, so the descending result is the exact reverse of the
\* ascending one only when no two transactions share a date.
DescKeepsBucketOrder ==
    LET asc == getTransactionsByDateAsc(Eng)
        desc == getTransactionsByDateDesc(Eng)
    IN /\ SeqToSet(desc) = SeqToSet(asc)
       /\ Len(desc) = Len(asc)
       /\ Cardinality(Ids(desc)) = Len(desc)
       /\ DatesDescending(desc)
       /\ InsertionOrderWithinDate(desc)
       /\ InsertionOrderWithinDate(asc)
       /\ (desc = Reverse(asc)) <=> ~SharesADate(asc)

\* three transactions, two of them on the last day of January and one in
\* February: the descending result starts with February's and is not the
\* reverse of the ascending one
DescKeepsBucketOrderWitness ==
    LET asc == getTransactionsByDateAsc(Eng)
        desc == getTransactionsByDateDesc(Eng)
    IN /\ Len(asc) = 3
       /\ asc[1].date = Date0131
       /\ asc[2].date = Date0131
       /\ asc[3].date = Date0210
       /\ desc = <<asc[3], asc[1], asc[2]>>
       /\ desc # Reverse(asc)

\* the bill with the id is in the schedule and paid
IsPaidIn(e, id) ==
    \E i \in 1..Len(getAllBills(e)) :
        getAllBills(e)[i].id = id /\ getAllBills(e)[i].isPaid

\* a bill that is paid before a step is paid after it, unless the step took
\* it out of the schedule
PaidStaysPaid ==
    \A i \in 1..Len(billQueue.nodes) :
        billQueue.nodes[i].isPaid =>
            \A j \in 1..Len(billQueue'.nodes) :
                billQueue'.nodes[j].id = billQueue.nodes[i].id
                    => billQueue'.nodes[j].isPaid

\* C38: a bill's paid status is monotonic: once payBill(id) has returned
\* true the bill's isPaid stays true in every later state until removeBill
\* or clearAll removes the bill (no operation, undo included, sets it back);
\* payBill on an already-paid bill returns true, keeps it paid and still
\* pushes one more PayBill record onto the undo log.
BillStaysPaid ==
    /\ [](\A id \in Ids(getAllBills(Eng)) :
              LET p == payBill(Eng, id)
              IN /\ p.ret
                 /\ IsPaidIn(p.e, id)
                 /\ IsPaidIn(undo(p.e).e, id)
                 /\ PushedOneRecord(Eng, p.e, "PAY_BILL")
                 /\ p.e.undoStack.nodes[1].data = id
                 /\ IsPaidIn(Eng, id) =>
                        /\ getAllBills(p.e) = getAllBills(Eng)
                        /\ IsPaidIn(payBill(p.e, id).e, id)
                        /\ payBill(p.e, id).ret)
    /\ [][PaidStaysPaid]_vars

\* the first bill was paid twice, both PayBill records are on the log, and
\* another bill is still unpaid
BillStaysPaidWitness ==
    /\ Len(undoStack.nodes) >= 2
    /\ undoStack.nodes[1] = Action("PAY_BILL", GenBillId(1))
    /\ undoStack.nodes[2] = Action("PAY_BILL", GenBillId(1))
    /\ IsPaidIn(Eng, GenBillId(1))
    /\ \E i \in 1..Len(billQueue.nodes) : ~billQueue.nodes[i].isPaid

====
